---------------------------- MODULE Spec2Model ----------------------------
(***************************************************************************)
(* Model of the MongoDB -> PostgreSQL synchronisation engine of            *)
(* sw2-servicio-bi: src/app/etl.py (readers, mappers, upsert writers,      *)
(* get_id_map, sync_data) and the cancellation event of                    *)
(* src/app/realtime_sync.py.                                               *)
(*                                                                         *)
(* Conventions.                                                            *)
(*  - An ObjectId is a natural number; str(ObjectId) is OidStr.            *)
(*  - Python None / SQL NULL is NULL (0) for ids, dates and amounts.       *)
(*  - A source document carries only the camelCase spelling of a field     *)
(*    (the code's "a or b" fallbacks read the snake_case spelling next).   *)
(*  - A target table is a set of rows [id, origen_id, c], c the record of  *)
(*    the non-key columns.                                                 *)
(***************************************************************************)
EXTENDS Integers, Sequences, FiniteSets, TLC

(***************************************************************************)
(* Bounds of the model.                                                    *)
(***************************************************************************)
NClientes == 3
NAgentes == 2
NServicios == 1
NPaquetes == 1
NVentas == 2
NDetalles == 2
\* irregular documents of the initial snapshot
MaxIrregular == 1
\* irregular documents + store faults + stop requests + source edits, per run
MaxTrouble == 2
\* invocations of sync_data
MaxPasses == 2
\* values of the wall clock
MaxClock == 2

(***************************************************************************)
(* Program constants.                                                      *)
(***************************************************************************)
max_attempts == 3
backoffs == <<1, 2, 4>>
\* telefono VARCHAR(20)
VarcharTelefono == 20
\* DECIMAL(10, 2): eight digits before the point
DecimalLimit == 100000000

NULL == 0

Tables == {"clientes", "agentes", "servicios", "paquetes_turisticos",
           "ventas", "detalle_venta"}

(***************************************************************************)
(* Values of a document field that holds a reference: absent/None, a       *)
(* native ObjectId, or a string.                                           *)
(***************************************************************************)
NoRef == [t |-> "none", n |-> 0, s |-> ""]
OidRef(n) == [t |-> "oid", n |-> n, s |-> ""]
StrRef(s) == [t |-> "str", n |-> 0, s |-> s]

\* str(ObjectId(...)): the canonical string encoding of an identifier
OidStr(n) == ToString(n)

\* Python truthiness of a field value: None and "" are false
Truthy(ref) == ref.t = "oid" \/ (ref.t = "str" /\ ref.s # "")

\* repr-style conversion, a different string for the same identifier
PyStrRepr(ref) == IF ref.t = "oid" THEN ToString(<<"ObjectId", ref.n>>) ELSE ref.s

\* str(value) of a reference field
PyStr(ref) == IF ref.t = "oid" THEN OidStr(ref.n) ELSE ref.s

\* dict.get(key): None when the key is absent
DictGet(m, k) == IF k \in DOMAIN m THEN m[k] ELSE NULL

\* a text that float() cannot parse
NonNumeric == -1

\* float(value or 0): ok = FALSE when float() raises ValueError
PyFloat(v) == [ok |-> v # NonNumeric, val |-> IF v = NonNumeric THEN 0 ELSE v]

\* str.lower() on the status texts of the model
Lower(s) == CASE s = "Confirmada" -> "confirmada"
              [] s = "CANCELADA" -> "cancelada"
              [] OTHER -> s

(***************************************************************************)
(* The source store.  A snapshot is described by the set of irregularities *)
(* it has against the regular snapshot: <<collection, i, kind>>.           *)
(***************************************************************************)
UserOid(i) == 10 + i
ClienteOid(i) == 20 + i
AgenteOid(i) == 30 + i
ServicioOid(i) == 40 + i
PaqueteOid(i) == 50 + i
VentaOid(i) == 60 + i
DetalleOid(i) == 70 + i
\* an identifier that no document of its collection has
Dangling(base) == base + 9

Day0 == 1

Kinds(coll) ==
    CASE coll = "clientes" -> {"absent", "strref", "badref", "nouser", "nodate", "reject"}
      [] coll = "agentes" -> {"absent", "strref", "badref", "nouser", "reject"}
      [] coll = "servicios" -> {"absent", "malformed", "reject"}
      [] coll = "paquetes_turisticos" -> {"absent", "malformed", "reject"}
      [] coll = "ventas" -> {"absent", "strref", "unresolved", "noref", "malformed",
                             "reject", "estado", "nodate"}
      [] coll = "detalle_venta" -> {"absent", "strref", "unresolved", "malformed",
                                    "reject"}

Size(coll) ==
    CASE coll = "clientes" -> NClientes
      [] coll = "agentes" -> NAgentes
      [] coll = "servicios" -> NServicios
      [] coll = "paquetes_turisticos" -> NPaquetes
      [] coll = "ventas" -> NVentas
      [] coll = "detalle_venta" -> NDetalles

Irregularities ==
    UNION {{<<coll, i, k>> : i \in 1..Size(coll), k \in Kinds(coll)} : coll \in Tables}

Has(irr, coll, i, k) == <<coll, i, k>> \in irr

\* a reference to identifier n, typed as the snapshot says; "badref" is a
\* string that encodes no identifier
RefTo(irr, coll, i, n, base) ==
    IF Has(irr, coll, i, "noref") THEN NoRef
    ELSE IF Has(irr, coll, i, "badref") THEN StrRef("sin-usuario")
    ELSE LET target == IF Has(irr, coll, i, "unresolved") THEN Dangling(base) ELSE n
         IN IF Has(irr, coll, i, "strref") THEN StrRef(OidStr(target)) ELSE OidRef(target)

\* a telefono longer than the column
LongTelefono == VarcharTelefono + 4

\* the user of client i is user i; the user of agent j is user NClientes + j
UsuarioDoc(irr, u) ==
    [_id |-> UserOid(u), nombre |-> "Ana", apellido |-> "Lopez",
     telefono |-> IF \/ (u <= NClientes /\ Has(irr, "clientes", u, "reject"))
                     \/ (u > NClientes /\ Has(irr, "agentes", u - NClientes, "reject"))
                  THEN LongTelefono ELSE 8]

\* the usuarios collection: a client or agent marked "nouser" has lost its user
Usuarios(irr) ==
    {UsuarioDoc(irr, u) : u \in {v \in 1..(NClientes + NAgentes) :
        /\ ~(v <= NClientes /\ Has(irr, "clientes", v, "nouser"))
        /\ ~(v > NClientes /\ Has(irr, "agentes", v - NClientes, "nouser"))}}

\* the indices of the documents a collection holds, in natural order
RECURSIVE PresentFrom(_, _, _)
PresentFrom(irr, coll, i) ==
    IF i > Size(coll) THEN <<>>
    ELSE IF Has(irr, coll, i, "absent") THEN PresentFrom(irr, coll, i + 1)
    ELSE <<i>> \o PresentFrom(irr, coll, i + 1)

Present(irr, coll) == PresentFrom(irr, coll, 1)

ClienteDoc(irr, i) ==
    [_id |-> ClienteOid(i),
     usuarioId |-> RefTo(irr, "clientes", i, UserOid(i), 10),
     fechaRegistro |-> IF Has(irr, "clientes", i, "nodate") THEN NULL ELSE Day0]

AgenteDoc(irr, i) ==
    [_id |-> AgenteOid(i),
     usuarioId |-> RefTo(irr, "agentes", i, UserOid(NClientes + i), 10)]

Precio(irr, coll, i) ==
    IF Has(irr, coll, i, "malformed") THEN NonNumeric
    ELSE IF Has(irr, coll, i, "reject") THEN DecimalLimit ELSE 100

ServicioDoc(irr, i) == [_id |-> ServicioOid(i), precioCosto |-> Precio(irr, "servicios", i)]

PaqueteDoc(irr, i) ==
    [_id |-> PaqueteOid(i), precioTotalVenta |-> Precio(irr, "paquetes_turisticos", i)]

\* sale i is of client min(i, NClientes) and agent 1
VentaDoc(irr, i) ==
    [_id |-> VentaOid(i),
     clienteId |-> RefTo(irr, "ventas", i,
                         ClienteOid(IF i <= NClientes THEN i ELSE NClientes), 20),
     agenteId |-> OidRef(AgenteOid(1)),
     estadoVenta |-> IF Has(irr, "ventas", i, "estado") THEN "Confirmada" ELSE "",
     montoTotal |-> Precio(irr, "ventas", i),
     fechaVenta |-> IF Has(irr, "ventas", i, "nodate") THEN NULL ELSE Day0]

\* sale-line i is of sale min(i, NVentas), service 1 and package 1
DetalleDoc(irr, i) ==
    [_id |-> DetalleOid(i),
     ventaId |-> RefTo(irr, "detalle_venta", i,
                       VentaOid(IF i <= NVentas THEN i ELSE NVentas), 60),
     servicioId |-> OidRef(ServicioOid(1)),
     paqueteId |-> StrRef(OidStr(PaqueteOid(1))),
     subtotal |-> Precio(irr, "detalle_venta", i)]


(***************************************************************************)
(* Source Reader.                                                          *)
(***************************************************************************)
AllOids == 10..89

\* the documents of a collection of the source store, in natural order
Collection(irr, coll) ==
    LET idx == Present(irr, coll)
    IN [k \in 1..Len(idx) |->
          CASE coll = "clientes" -> ClienteDoc(irr, idx[k])
            [] coll = "agentes" -> AgenteDoc(irr, idx[k])
            [] coll = "servicios" -> ServicioDoc(irr, idx[k])
            [] coll = "paquetes_turisticos" -> PaqueteDoc(irr, idx[k])
            [] coll = "ventas" -> VentaDoc(irr, idx[k])
            [] coll = "detalle_venta" -> DetalleDoc(irr, idx[k])]

\* extract_collection: the documents, or [] when the read raises
extract_collection(irr, coll, readFails) ==
    IF readFails THEN <<>> ELSE Collection(irr, coll)

\* $toObjectId: the identifier a string encodes; NULL when it encodes none
\* (the aggregation raises)
ToObjectId(s) ==
    IF \E n \in AllOids : OidStr(n) = s THEN CHOOSE n \in AllOids : OidStr(n) = s ELSE NULL

\* $addFields usuarioIdConverted: a string is converted, a native id passes through
usuarioIdConverted(doc) ==
    IF doc.usuarioId.t = "str" THEN ToObjectId(doc.usuarioId.s) ELSE doc.usuarioId.n

NoUsuario == [_id |-> NULL, nombre |-> "", apellido |-> "", telefono |-> 0]

\* $lookup in usuarios by _id: the matching user, NoUsuario when none matches
Lookup(usuarios, doc) ==
    IF \E u \in usuarios : u._id = usuarioIdConverted(doc)
    THEN CHOOSE u \in usuarios : u._id = usuarioIdConverted(doc)
    ELSE NoUsuario

\* the aggregation pipeline: $unwind keeps only the documents with a user
\* (preserveNullAndEmptyArrays False) and embeds it
Aggregate(docs, usuarios) ==
    LET kept == SelectSeq(docs, LAMBDA d : Lookup(usuarios, d)._id # NULL)
    IN [k \in 1..Len(kept) |->
          [_id |-> kept[k]._id, usuarioId |-> kept[k].usuarioId,
           fechaRegistro |-> IF "fechaRegistro" \in DOMAIN kept[k]
                             THEN kept[k].fechaRegistro ELSE NULL,
           usuario |-> Lookup(usuarios, kept[k])]]

\* extract_clientes_with_usuarios / extract_agentes_with_usuarios: [] when the
\* aggregation raises (the read fails, or $toObjectId meets a string that
\* encodes no identifier)
extract_with_usuarios(irr, coll, readFails) ==
    LET docs == Collection(irr, coll)
    IN IF readFails \/ \E k \in 1..Len(docs) :
                           docs[k].usuarioId.t = "str" /\ ToObjectId(docs[k].usuarioId.s) = NULL
       THEN <<>>
       ELSE Aggregate(docs, Usuarios(irr))

(***************************************************************************)
(* Document Mapper.  A mapper yields [raised, none, rec]: raised when the  *)
(* Python function raises, none when it returns None.                      *)
(***************************************************************************)
\* f"{nombre} {apellido}".strip() if nombre or apellido else ''
nombre_completo(nombre, apellido) ==
    CASE nombre = "" /\ apellido = "" -> ""
      [] nombre = "" -> apellido
      [] apellido = "" -> nombre
      [] nombre = "Ana" /\ apellido = "Lopez" -> "Ana Lopez"
      [] OTHER -> "Full Name"

NoRec == [origen_id |-> "", c |-> <<>>]

map_cliente(doc, now) ==
    IF doc._id = NULL THEN [raised |-> FALSE, none |-> TRUE, rec |-> NoRec]
    ELSE [raised |-> FALSE, none |-> FALSE,
          rec |-> [origen_id |-> OidStr(doc._id),
                   c |-> [nombre |-> IF nombre_completo(doc.usuario.nombre,
                                                        doc.usuario.apellido) = ""
                                     THEN "Sin nombre"
                                     ELSE nombre_completo(doc.usuario.nombre,
                                                          doc.usuario.apellido),
                          telefono |-> doc.usuario.telefono,
                          fecha_registro |-> IF doc.fechaRegistro # NULL
                                             THEN doc.fechaRegistro ELSE now]]]

map_agente(doc) ==
    IF doc._id = NULL THEN [raised |-> FALSE, none |-> TRUE, rec |-> NoRec]
    ELSE [raised |-> FALSE, none |-> FALSE,
          rec |-> [origen_id |-> OidStr(doc._id),
                   c |-> [nombre |-> IF nombre_completo(doc.usuario.nombre,
                                                        doc.usuario.apellido) = ""
                                     THEN "Sin nombre"
                                     ELSE nombre_completo(doc.usuario.nombre,
                                                          doc.usuario.apellido),
                          telefono |-> doc.usuario.telefono]]]

map_servicio(doc) ==
    IF doc._id = NULL THEN [raised |-> FALSE, none |-> TRUE, rec |-> NoRec]
    ELSE [raised |-> ~PyFloat(doc.precioCosto).ok, none |-> FALSE,
          rec |-> [origen_id |-> OidStr(doc._id),
                   c |-> [precio_costo |-> PyFloat(doc.precioCosto).val]]]

map_paquete_turistico(doc) ==
    IF doc._id = NULL THEN [raised |-> FALSE, none |-> TRUE, rec |-> NoRec]
    ELSE [raised |-> ~PyFloat(doc.precioTotalVenta).ok, none |-> FALSE,
          rec |-> [origen_id |-> OidStr(doc._id),
                   c |-> [precio_total_venta |-> PyFloat(doc.precioTotalVenta).val]]]

\* a KeyError-style lookup: a reference that is no key of the map fails (-1)
ForeignKeyStrict(ref, id_map) ==
    IF Truthy(ref) THEN (IF PyStr(ref) \in DOMAIN id_map THEN id_map[PyStr(ref)] ELSE -1)
    ELSE NULL

\* if doc.get(field): id_map.get(str(doc.get(field))), else None
ForeignKey(ref, id_map) ==
    IF Truthy(ref) THEN DictGet(id_map, PyStr(ref)) ELSE NULL

\* a sale mapper that copies the status text as it is
map_venta_copy_estado(doc, cliente_map, agente_map, now) ==
    IF doc._id = NULL THEN [raised |-> FALSE, none |-> TRUE, rec |-> NoRec]
    ELSE [raised |-> ~PyFloat(doc.montoTotal).ok, none |-> FALSE,
          rec |-> [origen_id |-> OidStr(doc._id),
                   c |-> [cliente_id |-> ForeignKey(doc.clienteId, cliente_map),
                          agente_id |-> ForeignKey(doc.agenteId, agente_map),
                          estado |-> doc.estadoVenta,
                          monto |-> PyFloat(doc.montoTotal).val,
                          fecha_venta |-> IF doc.fechaVenta # NULL THEN doc.fechaVenta
                                          ELSE now]]]

map_venta(doc, cliente_map, agente_map, now) ==
    IF doc._id = NULL THEN [raised |-> FALSE, none |-> TRUE, rec |-> NoRec]
    ELSE [raised |-> ~PyFloat(doc.montoTotal).ok, none |-> FALSE,
          rec |-> [origen_id |-> OidStr(doc._id),
                   c |-> [cliente_id |-> ForeignKey(doc.clienteId, cliente_map),
                          agente_id |-> ForeignKey(doc.agenteId, agente_map),
                          estado |-> IF doc.estadoVenta # "" THEN Lower(doc.estadoVenta)
                                     ELSE "pendiente",
                          monto |-> PyFloat(doc.montoTotal).val,
                          fecha_venta |-> IF doc.fechaVenta # NULL THEN doc.fechaVenta
                                          ELSE now]]]

map_detalle_venta(doc, venta_map, servicio_map, paquete_map) ==
    IF doc._id = NULL THEN [raised |-> FALSE, none |-> TRUE, rec |-> NoRec]
    ELSE [raised |-> ~PyFloat(doc.subtotal).ok, none |-> FALSE,
          rec |-> [origen_id |-> OidStr(doc._id),
                   c |-> [venta_id |-> ForeignKey(doc.ventaId, venta_map),
                          servicio_id |-> ForeignKey(doc.servicioId, servicio_map),
                          paquete_id |-> ForeignKey(doc.paqueteId, paquete_map),
                          subtotal |-> PyFloat(doc.subtotal).val]]]

\* [map_x(doc) for doc in docs] and the filter "is not None": the whole
\* comprehension raises when one document's mapper raises
MapAll(mapped) ==
    [raised |-> \E k \in 1..Len(mapped) : mapped[k].raised,
     recs |-> LET kept == SelectSeq(mapped, LAMBDA m : ~m.none)
              IN [k \in 1..Len(kept) |-> kept[k].rec]]

(***************************************************************************)
(* State.                                                                  *)
(***************************************************************************)
VARIABLES
    irr,          \* the source store: the irregularities of its snapshot
    now,          \* datetime.now()
    db,           \* the committed rows of each target table
    serial,       \* the last value of each table's id sequence
    stop_event,   \* realtime_sync._stop_event
    pc,           \* where sync_data is: idle, loop, pg, extract, a stage, except
    attempt,      \* sync_data's loop variable
    mongo_client, \* sync_data's local: none, open
    pg_conn,      \* sync_data's local: none, open
    unclosed,     \* clients and connections created and not closed
    docs,         \* the six extracted document lists
    maps,         \* cliente_map, agente_map, servicio_map, paquete_map, venta_map
    done,         \* the stages this attempt has committed, in order
    sleeps,       \* the time.sleep calls of this invocation: <<caller, seconds>>
    errs,         \* what failed each failed attempt of this invocation
    result,       \* how the last invocation ended: none, completed, failed, aborted
    passes,       \* invocations of sync_data so far
    trouble,      \* faults, stop requests and source edits still to be injected
    clean,        \* this invocation met no injected fault and no cancellation
    settled,      \* an undisturbed invocation has returned over this very snapshot
    client,       \* realtime_sync.client: 0 (None) or the number of a MongoClient
    closed,       \* the MongoClients on which close() was called
    is_running,   \* realtime_sync.is_running
    thread,       \* realtime_sync._thread: 0 (None) or the number of a thread
    th,           \* the watcher threads: where each is in watch_changes
    req,          \* the event loop: the request handler it is running, the
                  \* status of the last answer of /sync/once or /sync/force,
                  \* and what the last start() returned
    sd,           \* sync_data as run by a watcher thread or by the event loop
    outage,       \* the stores cannot be reached
    watched,      \* the client documents inserted while the watcher was watching
    left,         \* requests and source changes still to come
    pool          \* db._POOL: whether it is set, the ConnectionPool objects that
                  \* are open, and the pooled connections handed out

\* the state of the watcher and of the request handlers
wvars == <<client, closed, is_running, thread, th, req, sd, outage, watched, left, pool>>

vars == <<irr, now, db, serial, stop_event, pc, attempt, mongo_client, pg_conn,
          unclosed, docs, maps, done, sleeps, errs, result, passes, trouble,
          clean, settled, client, closed, is_running, thread, th, req, sd, outage,
          watched, left, pool>>

(***************************************************************************)
(* Target store and Upsert Writer.  The connection runs with autocommit    *)
(* off: a statement works on the transaction's view W of the table, a      *)
(* rejected statement puts the transaction in the failed state, in which   *)
(* PostgreSQL rejects every statement until the transaction ends, and      *)
(* COMMIT of a failed transaction rolls it back.                           *)
(***************************************************************************)
\* the table whose ids each foreign-key column of sales and sale-lines holds
TableOfColumn ==
    [cliente_id |-> "clientes", agente_id |-> "agentes", venta_id |-> "ventas",
     servicio_id |-> "servicios", paquete_id |-> "paquetes_turisticos"]

\* <col> INTEGER REFERENCES <table>(id): NULL, or the id of a row of the table
References(c, col) ==
    c[col] = NULL \/ \E x \in db[TableOfColumn[col]] : x.id = c[col]

\* the tables init.sql creates (clientes, ventas, detalle_venta): a value can
\* violate a column's type as in the tables created here, the foreign-key
\* columns accept NULL, and a foreign key that is not NULL has to name a row
RejectsByInitSql(t, c) ==
    CASE t = "clientes" -> c.telefono > VarcharTelefono
      [] t = "ventas" -> \/ c.monto >= DecimalLimit
                         \/ ~References(c, "cliente_id")
                         \/ ~References(c, "agente_id")
      [] t = "detalle_venta" -> \/ c.subtotal >= DecimalLimit
                                \/ ~References(c, "venta_id")
      [] OTHER -> FALSE

\* the column constraints a statement's values can violate: the column types
\* of the tables created here, and the REFERENCES of the columns added to
\* detalle_venta
Rejects(t, c) ==
    CASE t = "agentes" -> c.telefono > VarcharTelefono
      [] t = "servicios" -> c.precio_costo >= DecimalLimit
      [] t = "paquetes_turisticos" -> c.precio_total_venta >= DecimalLimit
      [] t = "detalle_venta" -> \/ ~References(c, "servicio_id")
                                \/ ~References(c, "paquete_id")
                                \/ RejectsByInitSql(t, c)
      [] OTHER -> RejectsByInitSql(t, c)

HasOrigen(W, o) == \E r \in W : r.origen_id = o

RowOf(W, o) == CHOOSE r \in W : r.origen_id = o

\* INSERT without the conflict clause: always a new row
InsertAlways(W, rec, newid) ==
    W \cup {[id |-> newid, origen_id |-> rec.origen_id, c |-> rec.c]}

\* delete-and-insert on conflict: the row is replaced under a new id
ReplaceOnConflict(W, rec, newid) ==
    {r \in W : r.origen_id # rec.origen_id}
        \cup {[id |-> newid, origen_id |-> rec.origen_id, c |-> rec.c]}

\* INSERT ... ON CONFLICT (origen_id) DO UPDATE SET <every non-key column>
InsertOnConflictUpdate(W, rec, newid) ==
    IF HasOrigen(W, rec.origen_id)
    THEN {IF r.origen_id = rec.origen_id THEN [r EXCEPT !.c = rec.c] ELSE r : r \in W}
    ELSE W \cup {[id |-> newid, origen_id |-> rec.origen_id, c |-> rec.c]}

\* a load that truncates the table before it writes the batch
UpsertStartTruncate(committed, lastid) ==
    [W |-> {}, serial |-> lastid, aborted |-> FALSE,
     insertados |-> 0, actualizados |-> 0, venta_map |-> <<>>]

\* the state of one upsert_* call: the transaction's view, the table's
\* sequence, whether the transaction is in the failed state, the counters
\* and (upsert_ventas) venta_map
UpsertStart(committed, lastid) ==
    [W |-> committed, serial |-> lastid, aborted |-> FALSE,
     insertados |-> 0, actualizados |-> 0, venta_map |-> <<>>]

\* one iteration of the loop of upsert_* over a record.  style "rollback":
\* the except branch calls conn.rollback() (upsert_clientes); style
\* "continue": it only logs and continues (the other five).  cur.rowcount is
\* 1 for an inserted and for an updated row.
UpsertOne(style, t, committed, st, rec) ==
    IF st.aborted THEN st
    ELSE IF Rejects(t, rec.c)
    THEN IF style = "rollback"
         THEN [st EXCEPT !.W = committed, !.serial = @ + 1]
         ELSE [st EXCEPT !.aborted = TRUE, !.serial = @ + 1]
    ELSE LET W2 == InsertOnConflictUpdate(st.W, rec, st.serial + 1)
         IN [st EXCEPT !.W = W2, !.serial = @ + 1,
                       !.insertados = @ + 1,
                       !.venta_map = IF t = "ventas"
                                     THEN [o \in DOMAIN @ \cup {rec.origen_id} |->
                                             IF o = rec.origen_id
                                             THEN RowOf(W2, rec.origen_id).id ELSE @[o]]
                                     ELSE @]

RECURSIVE UpsertLoop(_, _, _, _, _)
UpsertLoop(style, t, committed, st, recs) ==
    IF recs = <<>> THEN st
    ELSE UpsertLoop(style, t, committed, UpsertOne(style, t, committed, st, Head(recs)),
                    Tail(recs))

\* upsert_<t>(conn, recs): nothing is executed for an empty list
Upsert(style, t, committed, lastid, recs) ==
    UpsertLoop(style, t, committed, UpsertStart(committed, lastid), recs)

\* pg_conn.commit(): the view becomes the table; a failed transaction is
\* rolled back
Commit(committed, st) == IF st.aborted THEN committed ELSE st.W

StyleOf(t) == IF t = "clientes" THEN "rollback" ELSE "continue"

(***************************************************************************)
(* Identifier Resolver.                                                    *)
(***************************************************************************)
\* get_id_map: {origen_id: id} over the rows with an origen_id; {} when the
\* query raises
get_id_map(table, queryFails) ==
    IF queryFails THEN <<>>
    ELSE [o \in {r.origen_id : r \in {x \in table : x.origen_id # ""}} |->
            RowOf(table, o).id]

\* threads the model lets start() create
MaxThreads == 2
\* requests (startup, restart, sync once, shutdown) the model serves
MaxRequests == 2
\* source changes the model makes while requests are served
FewNotes == 2
\* source changes the model makes while the watcher is left to itself
MaxNotes == 3

Threads == 1..MaxThreads

\* who runs sync_data: a watcher thread, or the event loop (0)
Contexts == 0..MaxThreads

NoChange == [coll |-> "", during |-> 0]

\* a thread start() has not created yet
Unborn == [pc |-> "unborn", client |-> 0, stream |-> <<>>, change |-> NoChange,
           late |-> FALSE, npass |-> 0, served |-> <<>>]

NotInSync == [pc |-> "off", result |-> "none"]

\* RealtimeSync.__init__, and no request being served
WatcherInit ==
    /\ client = 0
    /\ closed = {}
    /\ is_running = FALSE
    /\ thread = 0
    /\ th = [t \in Threads |-> Unborn]
    /\ req = [pc |-> "idle", op |-> "none", status |-> "none", started |-> "none"]
    /\ sd = [c \in Contexts |-> NotInSync]
    /\ outage = FALSE
    /\ watched = {}
    /\ pool = [open |-> FALSE, pools |-> 0, inuse |-> 0]

Stages == <<"clientes", "agentes", "servicios", "paquetes_turisticos", "idmaps",
            "ventas", "detalle_venta">>

\* the stage order with sales loaded before the identifier maps are read
StagesVentasFirst == <<"clientes", "agentes", "ventas", "servicios",
                       "paquetes_turisticos", "idmaps", "detalle_venta">>

\* the stages of an attempt in the order sync_data runs them
StageOrder == Stages

StageIndex(stage) == CHOOSE k \in 1..Len(StageOrder) : StageOrder[k] = stage

FirstStage == StageOrder[1]

IsLastStage(stage) == StageIndex(stage) = Len(StageOrder)

NextStage(stage) == StageOrder[StageIndex(stage) + 1]

NoDocs == [t \in Tables |-> <<>>]

NoMaps == [cliente_map |-> <<>>, agente_map |-> <<>>, servicio_map |-> <<>>,
           paquete_map |-> <<>>, venta_map |-> <<>>]

RECURSIVE SubsetsUpTo(_, _)
SubsetsUpTo(S, k) ==
    IF k = 0 THEN {{}}
    ELSE LET prev == SubsetsUpTo(S, k - 1)
         IN prev \cup {p \cup {x} : p \in prev, x \in S}

\* an absent document has no other irregularity
Coherent(I) ==
    \A x \in I : x[3] = "absent" => \A y \in I : (y[1] = x[1] /\ y[2] = x[2]) => y = x

Snapshots == {I \in SubsetsUpTo(Irregularities, MaxIrregular) : Coherent(I)}

Init ==
    /\ irr \in Snapshots
    /\ now = Day0
    /\ db = [t \in Tables |-> {}]
    /\ serial = [t \in Tables |-> 0]
    /\ stop_event = FALSE
    /\ pc = "idle"
    /\ attempt = 0
    /\ mongo_client = "none"
    /\ pg_conn = "none"
    /\ unclosed = [mongo |-> 0, pg |-> 0]
    /\ docs = NoDocs
    /\ maps = NoMaps
    /\ done = <<>>
    /\ sleeps = <<>>
    /\ errs = <<>>
    /\ result = "none"
    /\ passes = 0
    /\ trouble = MaxTrouble - Cardinality(irr)
    /\ clean = TRUE
    /\ settled = FALSE
    /\ WatcherInit
    /\ left = [reqs |-> 0, notes |-> 0]

(***************************************************************************)
(* sync_data.                                                              *)
(***************************************************************************)
\* pg_conn.close() and mongo_client.close(), each "if" it was opened
CloseBoth ==
    /\ mongo_client' = "none"
    /\ pg_conn' = "none"
    /\ unclosed' = [mongo |-> unclosed.mongo - (IF mongo_client = "open" THEN 1 ELSE 0),
                    pg |-> unclosed.pg - (IF pg_conn = "open" THEN 1 ELSE 0)]

\* "return": the locals die with the call
Return(res, undisturbed) ==
    /\ pc' = "idle"
    /\ result' = res
    /\ attempt' = 0
    /\ docs' = NoDocs
    /\ maps' = NoMaps
    /\ done' = <<>>
    /\ settled' = (settled \/ undisturbed)
    /\ clean' = TRUE

\* an exception reaches the except clause of the attempt
Raise(cause) ==
    /\ pc' = "except"
    /\ errs' = Append(errs, cause)

\* a caller (the watcher, /sync/once, /sync/force, run_etl) calls sync_data()
Invoke ==
    /\ pc = "idle"
    /\ passes < MaxPasses
    /\ passes' = passes + 1
    /\ pc' = "loop"
    /\ attempt' = 1
    /\ sleeps' = <<>>
    /\ errs' = <<>>
    /\ result' = "none"
    /\ clean' = TRUE
    /\ UNCHANGED <<irr, now, db, serial, stop_event, mongo_client, pg_conn, unclosed,
                   docs, maps, done, trouble, settled>>
    /\ UNCHANGED wvars

\* top of the loop: the stop event is set, sync_data returns
Cancelled ==
    /\ pc = "loop"
    /\ stop_event
    /\ Return("aborted", FALSE)
    /\ UNCHANGED <<irr, now, db, serial, stop_event, mongo_client, pg_conn, unclosed,
                   sleeps, errs, passes, trouble>>
    /\ UNCHANGED wvars

\* top of the loop, then get_mongo_client(): the client is created and pings
MongoConnect ==
    /\ pc = "loop"
    /\ ~stop_event
    /\ mongo_client' = "open"
    /\ unclosed' = [unclosed EXCEPT !.mongo = @ + 1]
    /\ done' = <<>>
    /\ pc' = "pg"
    /\ UNCHANGED <<irr, now, db, serial, stop_event, attempt, pg_conn, docs, maps,
                   sleeps, errs, result, passes, trouble, clean, settled>>
    /\ UNCHANGED wvars

\* get_mongo_client() raises: MongoClient(...) was created, the ping failed,
\* and the local mongo_client of sync_data is still None
MongoConnectFails ==
    /\ pc = "loop"
    /\ ~stop_event
    /\ trouble > 0
    /\ trouble' = trouble - 1
    /\ clean' = FALSE
    /\ unclosed' = [unclosed EXCEPT !.mongo = @ + 1]
    /\ done' = <<>>
    /\ Raise("mongo")
    /\ UNCHANGED <<irr, now, db, serial, stop_event, attempt, mongo_client, pg_conn,
                   docs, maps, sleeps, result, passes, settled>>
    /\ UNCHANGED wvars

\* the sleeps of get_pg_connection after its first k failed attempts
PgSleeps(k) == [i \in 1..k |-> <<"get_pg_connection", backoffs[i]>>]

\* a get_pg_connection that takes its connection from the pool when there
\* is one, as db.get_conn does
PgConnectPooled ==
    /\ pc = "pg"
    /\ \E k \in 0..(max_attempts - 1) :
          /\ k > 0 => trouble > 0
          /\ trouble' = IF k > 0 THEN trouble - 1 ELSE trouble
          /\ clean' = (clean /\ k = 0)
          /\ sleeps' = sleeps \o PgSleeps(k)
    /\ pg_conn' = "open"
    /\ IF pool.open
       THEN pool' = [pool EXCEPT !.inuse = @ + 1] /\ UNCHANGED unclosed
       ELSE unclosed' = [unclosed EXCEPT !.pg = @ + 1] /\ UNCHANGED pool
    /\ pc' = "extract"
    /\ UNCHANGED <<irr, now, db, serial, stop_event, attempt, mongo_client, docs, maps,
                   done, errs, result, passes, settled>>
    /\ UNCHANGED <<client, closed, is_running, thread, th, req, sd, outage, watched, left>>

\* get_pg_connection(): connects at its attempt k + 1 <= max_attempts, with
\* psycopg.connect
PgConnect ==
    /\ pc = "pg"
    /\ \E k \in 0..(max_attempts - 1) :
          /\ k > 0 => trouble > 0
          /\ trouble' = IF k > 0 THEN trouble - 1 ELSE trouble
          /\ clean' = (clean /\ k = 0)
          /\ sleeps' = sleeps \o PgSleeps(k)
    /\ pg_conn' = "open"
    /\ unclosed' = [unclosed EXCEPT !.pg = @ + 1]
    /\ pc' = "extract"
    /\ UNCHANGED <<irr, now, db, serial, stop_event, attempt, mongo_client, docs, maps,
                   done, errs, result, passes, settled>>
    /\ UNCHANGED wvars

\* get_pg_connection() raises after max_attempts failed attempts
PgConnectFails ==
    /\ pc = "pg"
    /\ trouble > 0
    /\ trouble' = trouble - 1
    /\ clean' = FALSE
    /\ sleeps' = sleeps \o PgSleeps(max_attempts - 1)
    /\ Raise("pg_connect")
    /\ UNCHANGED <<irr, now, db, serial, stop_event, attempt, mongo_client, pg_conn,
                   unclosed, docs, maps, done, result, passes, settled>>
    /\ UNCHANGED wvars

\* six reads of which one that raises fails the attempt
ExtractRaising ==
    /\ pc = "extract"
    /\ \E failing \in {{}} \cup {{t} : t \in Tables} :
          /\ failing # {} => trouble > 0
          /\ trouble' = IF failing # {} THEN trouble - 1 ELSE trouble
          /\ clean' = (clean /\ failing = {})
          /\ IF failing # {}
             THEN Raise("read") /\ UNCHANGED docs
             ELSE /\ docs' = [t \in Tables |->
                                IF t \in {"clientes", "agentes"}
                                THEN extract_with_usuarios(irr, t, FALSE)
                                ELSE extract_collection(irr, t, FALSE)]
                  /\ pc' = FirstStage
                  /\ UNCHANGED errs
    /\ UNCHANGED <<irr, now, db, serial, stop_event, attempt, mongo_client, pg_conn,
                   unclosed, maps, done, sleeps, result, passes, settled>>
    /\ UNCHANGED wvars

\* the six reads; a read that raises yields []
Extract ==
    /\ pc = "extract"
    /\ \E failing \in {{}} \cup {{t} : t \in Tables} :
          /\ failing # {} => trouble > 0
          /\ trouble' = IF failing # {} THEN trouble - 1 ELSE trouble
          /\ clean' = (clean /\ failing = {})
          /\ docs' = [t \in Tables |->
                        IF t \in {"clientes", "agentes"}
                        THEN extract_with_usuarios(irr, t, t \in failing)
                        ELSE extract_collection(irr, t, t \in failing)]
    /\ pc' = FirstStage
    /\ UNCHANGED <<irr, now, db, serial, stop_event, attempt, mongo_client, pg_conn,
                   unclosed, maps, done, sleeps, errs, result, passes, settled>>
    /\ UNCHANGED wvars

\* [map_<t>(doc) for doc in <t>_mongo]
Mapped(t) ==
    [k \in 1..Len(docs[t]) |->
       CASE t = "clientes" -> map_cliente(docs[t][k], now)
         [] t = "agentes" -> map_agente(docs[t][k])
         [] t = "servicios" -> map_servicio(docs[t][k])
         [] t = "paquetes_turisticos" -> map_paquete_turistico(docs[t][k])
         [] t = "ventas" -> map_venta(docs[t][k], maps.cliente_map, maps.agente_map, now)
         [] t = "detalle_venta" -> map_detalle_venta(docs[t][k], maps.venta_map,
                                                     maps.servicio_map, maps.paquete_map)]

\* after the last stage: close both connections and return
Finish ==
    /\ CloseBoth
    /\ Return("completed", clean)
    /\ UNCHANGED <<errs>>

\* an entity type's stage that looks at the stop event before it writes and
\* gives the attempt up when it is set
LoadStageCancellable(t) ==
    /\ pc = t
    /\ LET m == MapAll(Mapped(t))
           st == Upsert(StyleOf(t), t, db[t], serial[t], m.recs)
       IN IF m.raised \/ stop_event
          THEN /\ Raise(IF stop_event THEN "cancelled" ELSE "map")
               /\ UNCHANGED <<db, serial, maps, done, mongo_client, pg_conn, unclosed,
                              attempt, docs, result, clean, settled>>
          ELSE /\ db' = [db EXCEPT ![t] = Commit(db[t], st)]
               /\ serial' = [serial EXCEPT ![t] = st.serial]
               /\ IF IsLastStage(t)
                  THEN Finish
                  ELSE /\ pc' = NextStage(t)
                       /\ done' = Append(done, t)
                       /\ maps' = IF t = "ventas"
                                  THEN [maps EXCEPT !.venta_map = st.venta_map]
                                  ELSE maps
                       /\ UNCHANGED <<mongo_client, pg_conn, unclosed, attempt, docs,
                                      errs, result, clean, settled>>
    /\ UNCHANGED <<irr, now, stop_event, sleeps, passes, trouble>>
    /\ UNCHANGED wvars

\* one entity type: map, upsert_<t>, pg_conn.commit()
LoadStage(t) ==
    /\ pc = t
    /\ LET m == MapAll(Mapped(t))
           st == Upsert(StyleOf(t), t, db[t], serial[t], m.recs)
       IN IF m.raised
          THEN /\ Raise("map")
               /\ UNCHANGED <<db, serial, maps, done, mongo_client, pg_conn, unclosed,
                              attempt, docs, result, clean, settled>>
          ELSE /\ db' = [db EXCEPT ![t] = Commit(db[t], st)]
               /\ serial' = [serial EXCEPT ![t] = st.serial]
               /\ IF IsLastStage(t)
                  THEN Finish
                  ELSE /\ pc' = NextStage(t)
                       /\ done' = Append(done, t)
                       /\ maps' = IF t = "ventas"
                                  THEN [maps EXCEPT !.venta_map = st.venta_map]
                                  ELSE maps
                       /\ UNCHANGED <<mongo_client, pg_conn, unclosed, attempt, docs,
                                      errs, result, clean, settled>>
    /\ UNCHANGED <<irr, now, stop_event, sleeps, passes, trouble>>
    /\ UNCHANGED wvars

\* a pass that is one transaction end to end: a failure undoes every batch
LoadStageFailsAtomic(t) ==
    /\ pc = t
    /\ trouble > 0
    /\ trouble' = trouble - 1
    /\ clean' = FALSE
    /\ Raise("pg")
    /\ db' = [x \in Tables |-> {}]
    /\ UNCHANGED <<irr, now, serial, stop_event, attempt, mongo_client, pg_conn,
                   unclosed, docs, maps, done, sleeps, result, passes, settled>>
    /\ UNCHANGED wvars

\* the connection is lost while the entity type is written or committed:
\* the statement or the commit raises and nothing of the batch is committed
LoadStageFails(t) ==
    /\ pc = t
    /\ trouble > 0
    /\ trouble' = trouble - 1
    /\ clean' = FALSE
    /\ Raise("pg")
    /\ UNCHANGED <<irr, now, db, serial, stop_event, attempt, mongo_client, pg_conn,
                   unclosed, docs, maps, done, sleeps, result, passes, settled>>
    /\ UNCHANGED wvars

MapTables == <<"clientes", "agentes", "servicios", "paquetes_turisticos">>

\* four get_id_map calls of which one that fails fails the attempt
ReadIdMapsRaising ==
    /\ pc = "idmaps"
    /\ \E firstFail \in 0..Len(MapTables) :
          /\ firstFail > 0 => trouble > 0
          /\ trouble' = IF firstFail > 0 THEN trouble - 1 ELSE trouble
          /\ clean' = (clean /\ firstFail = 0)
          /\ IF firstFail > 0
             THEN Raise("idmaps") /\ UNCHANGED <<maps, done>>
             ELSE /\ maps' = [cliente_map |-> get_id_map(db["clientes"], FALSE),
                              agente_map |-> get_id_map(db["agentes"], FALSE),
                              servicio_map |-> get_id_map(db["servicios"], FALSE),
                              paquete_map |-> get_id_map(db["paquetes_turisticos"], FALSE),
                              venta_map |-> <<>>]
                  /\ pc' = NextStage("idmaps")
                  /\ done' = Append(done, "idmaps")
                  /\ UNCHANGED errs
    /\ UNCHANGED <<irr, now, db, serial, stop_event, attempt, mongo_client, pg_conn,
                   unclosed, docs, sleeps, result, passes, settled>>
    /\ UNCHANGED wvars

\* the four get_id_map calls.  A query that fails leaves the transaction
\* failed, so the queries after it fail too: firstFail is the first failing
\* call, 0 when none fails.  The failed transaction ends in upsert_ventas,
\* whose first statement (ALTER TABLE) fails in it and whose except clause
\* rolls back, or, for an empty batch, at the commit after it
ReadIdMaps ==
    /\ pc = "idmaps"
    /\ \E firstFail \in 0..Len(MapTables) :
          /\ firstFail > 0 => trouble > 0
          /\ trouble' = IF firstFail > 0 THEN trouble - 1 ELSE trouble
          /\ clean' = (clean /\ firstFail = 0)
          /\ LET m(k) == get_id_map(db[MapTables[k]], firstFail > 0 /\ k >= firstFail)
             IN maps' = [cliente_map |-> m(1), agente_map |-> m(2), servicio_map |-> m(3),
                         paquete_map |-> m(4), venta_map |-> <<>>]
    /\ pc' = NextStage("idmaps")
    /\ done' = Append(done, "idmaps")
    /\ UNCHANGED <<irr, now, db, serial, stop_event, attempt, mongo_client, pg_conn,
                   unclosed, docs, sleeps, errs, result, passes, settled>>
    /\ UNCHANGED wvars

\* an except clause that backs off before it looks at the stop event
ExceptCancelledAfterSleep ==
    /\ pc = "except"
    /\ stop_event
    /\ CloseBoth
    /\ Return("aborted", FALSE)
    /\ sleeps' = Append(sleeps, <<"sync_data", backoffs[1]>>)
    /\ UNCHANGED <<irr, now, db, serial, stop_event, errs, passes, trouble>>
    /\ UNCHANGED wvars

\* except: the stop event is set, close and return without retrying
ExceptCancelled ==
    /\ pc = "except"
    /\ stop_event
    /\ CloseBoth
    /\ Return("aborted", FALSE)
    /\ UNCHANGED <<irr, now, db, serial, stop_event, sleeps, errs, passes, trouble>>
    /\ UNCHANGED wvars

\* except: the last attempt failed, close and return
ExceptExhausted ==
    /\ pc = "except"
    /\ ~stop_event
    /\ attempt = max_attempts
    /\ CloseBoth
    /\ Return("failed", clean)
    /\ UNCHANGED <<irr, now, db, serial, stop_event, sleeps, errs, passes, trouble>>
    /\ UNCHANGED wvars

\* a retry loop without backoff: always the first delay
sleep_for_first(a) == backoffs[1]

\* sleep_for = backoffs[min(attempt - 1, len(backoffs) - 1)]
sleep_for(a) == backoffs[(IF a - 1 < Len(backoffs) - 1 THEN a - 1 ELSE Len(backoffs) - 1) + 1]

\* a retry that does not count its attempts
ExceptBackoffUncounted ==
    /\ pc = "except"
    /\ ~stop_event
    /\ attempt < max_attempts
    /\ CloseBoth
    /\ sleeps' = Append(sleeps, <<"sync_data", sleep_for(attempt)>>)
    /\ pc' = "loop"
    /\ UNCHANGED <<irr, now, db, serial, stop_event, attempt, docs, maps, done, errs,
                   result, passes, trouble, clean, settled>>
    /\ UNCHANGED wvars

\* except: close, time.sleep(sleep_for), next attempt
ExceptBackoff ==
    /\ pc = "except"
    /\ ~stop_event
    /\ attempt < max_attempts
    /\ CloseBoth
    /\ sleeps' = Append(sleeps, <<"sync_data", sleep_for(attempt)>>)
    /\ attempt' = attempt + 1
    /\ pc' = "loop"
    /\ UNCHANGED <<irr, now, db, serial, stop_event, docs, maps, done, errs, result,
                   passes, trouble, clean, settled>>
    /\ UNCHANGED wvars

(***************************************************************************)
(* The environment.                                                        *)
(***************************************************************************)
\* RealtimeSync.stop() sets the event
StopRequested ==
    /\ ~stop_event
    /\ trouble > 0
    /\ trouble' = trouble - 1
    /\ stop_event' = TRUE
    /\ UNCHANGED <<irr, now, db, serial, pc, attempt, mongo_client, pg_conn, unclosed,
                   docs, maps, done, sleeps, errs, result, passes, clean, settled>>
    /\ UNCHANGED wvars

\* RealtimeSync.start() clears the event
StartRequested ==
    /\ stop_event
    /\ stop_event' = FALSE
    /\ UNCHANGED <<irr, now, db, serial, pc, attempt, mongo_client, pg_conn, unclosed,
                   docs, maps, done, sleeps, errs, result, passes, trouble, clean,
                   settled>>
    /\ UNCHANGED wvars

\* time passes between attempts and between invocations
Tick ==
    /\ pc \in {"idle", "loop"}
    /\ now < MaxClock
    /\ now' = now + 1
    /\ UNCHANGED <<irr, db, serial, stop_event, pc, attempt, mongo_client, pg_conn,
                   unclosed, docs, maps, done, sleeps, errs, result, passes, trouble,
                   clean, settled>>
    /\ UNCHANGED wvars

\* the application changes the source store between two invocations: a
\* document is deleted, inserted or rewritten
SourceEdit ==
    /\ pc = "idle"
    /\ passes > 0
    /\ trouble > 0
    /\ trouble' = trouble - 1
    /\ \E x \in Irregularities :
          /\ irr' = IF x \in irr THEN irr \ {x} ELSE irr \cup {x}
          /\ Coherent(irr')
    /\ settled' = FALSE
    /\ clean' = FALSE
    /\ UNCHANGED <<now, db, serial, stop_event, pc, attempt, mongo_client, pg_conn,
                   unclosed, docs, maps, done, sleeps, errs, result, passes>>
    /\ UNCHANGED wvars

Next ==
    \/ Invoke
    \/ Cancelled
    \/ MongoConnect
    \/ MongoConnectFails
    \/ PgConnect
    \/ PgConnectFails
    \/ Extract
    \/ \E t \in Tables : LoadStage(t)
    \/ \E t \in Tables : LoadStageFails(t)
    \/ ReadIdMaps
    \/ ExceptCancelled
    \/ ExceptExhausted
    \/ ExceptBackoff
    \/ StopRequested
    \/ StartRequested
    \/ Tick
    \/ SourceEdit

Spec == Init /\ [][Next]_vars

\* faults the model injects when the target store stays unreachable
MaxPgFaults == 6

\* the target store cannot be reached for as long as the model runs: the
\* regular snapshot, and every get_pg_connection() fails
InitPgDown ==
    /\ irr = {}
    /\ now = Day0
    /\ db = [t \in Tables |-> {}]
    /\ serial = [t \in Tables |-> 0]
    /\ stop_event = FALSE
    /\ pc = "idle"
    /\ attempt = 0
    /\ mongo_client = "none"
    /\ pg_conn = "none"
    /\ unclosed = [mongo |-> 0, pg |-> 0]
    /\ docs = NoDocs
    /\ maps = NoMaps
    /\ done = <<>>
    /\ sleeps = <<>>
    /\ errs = <<>>
    /\ result = "none"
    /\ passes = 0
    /\ trouble = MaxPgFaults
    /\ clean = TRUE
    /\ settled = FALSE
    /\ WatcherInit
    /\ left = [reqs |-> 0, notes |-> 0]

NextPgDown ==
    \/ Invoke
    \/ Cancelled
    \/ MongoConnect
    \/ MongoConnectFails
    \/ PgConnectFails
    \/ ExceptCancelled
    \/ ExceptExhausted
    \/ ExceptBackoff
    \/ StopRequested
    \/ StartRequested
    \/ Tick

SpecPgDown == InitPgDown /\ [][NextPgDown]_vars

(***************************************************************************)
(* The watcher (RealtimeSync) and the request handlers that start it, stop *)
(* it and call sync_data.  Here sync_data is followed as its callers see   *)
(* it: its attempts, its looks at the stop event, its return, and what a   *)
(* completed pass leaves in clientes.                                      *)
(***************************************************************************)
\* the collections sync_data reads
SourceCollections ==
    {"clientes", "agentes", "servicios", "paquetesTuristicos", "ventas", "detalleVenta"}

collections_to_watch ==
    {"clientes", "agentes", "servicios", "paquetes_turisticos", "ventas", "detalle_venta"}

\* the collections the model changes: one that both lists name, one that
\* only sync_data names, one that neither names
ChangedCollections == {"clientes", "paquetesTuristicos", "usuarios"}

\* Thread.is_alive()
is_alive(t) == t \in Threads /\ th[t].pc \notin {"unborn", "dead"}

\* the thread's change stream is open on the server
StreamOpen(t) == th[t].pc \in {"opened", "next", "change", "sync"} /\ th[t].client \notin closed

\* the variables of the ETL model that the watcher model leaves alone
passvars == <<now, pc, attempt, mongo_client, pg_conn, unclosed, docs, maps, done,
              sleeps, errs, result, passes, clean, settled>>

\* and with them the pool, which only startup and shutdown touch
etlvars == <<passvars, pool>>

\* an init_pool without the "if _POOL is not None: return _POOL"
init_pool_again(p) == [p EXCEPT !.open = TRUE, !.pools = @ + 1]

\* db.init_pool: a ConnectionPool is created unless _POOL is set
init_pool(p) == IF p.open THEN p ELSE [p EXCEPT !.open = TRUE, !.pools = @ + 1]

\* db.close_pool: _POOL.close() and _POOL = None, if _POOL is set
close_pool(p) == IF p.open THEN [p EXCEPT !.open = FALSE, !.pools = @ - 1] ELSE p

\* what only a change of the source changes
srcvars == <<irr, watched>>

\* a start() that clears the stop event before it connects
StartNotConnectedClearing ==
    /\ outage
    /\ client' = client + 1
    /\ stop_event' = FALSE
    /\ req' = [pc |-> "idle", op |-> "none", status |-> "none", started |-> "False"]
    /\ UNCHANGED <<th, thread>>

\* start() when connect() returns True: the event is cleared, a thread is
\* created on watch_changes, and start() returns True to its caller, which
\* is done
StartConnected ==
    /\ \E t \in Threads :
          /\ th[t].pc = "unborn"
          /\ \A u \in Threads : u < t => th[u].pc # "unborn"
          /\ th' = [th EXCEPT ![t] = [Unborn EXCEPT !.pc = "born"]]
          /\ thread' = t
    /\ client' = client + 1
    /\ stop_event' = FALSE
    /\ req' = [pc |-> "idle", op |-> "none", status |-> "none", started |-> "True"]

\* start() when connect() returns False: self.client is the new MongoClient,
\* whose ping raised, and start() returns False
StartNotConnected ==
    /\ outage
    /\ client' = client + 1
    /\ req' = [pc |-> "idle", op |-> "none", status |-> "none", started |-> "False"]
    /\ UNCHANGED <<th, thread, stop_event>>

\* start()
Start == IF outage THEN StartNotConnected ELSE StartConnected

\* startup_event: init_pool(), then start_realtime_sync()
Startup ==
    /\ req.pc = "idle"
    /\ client = 0
    /\ left.reqs > 0
    /\ left' = [left EXCEPT !.reqs = @ - 1]
    /\ pool' = init_pool(pool)
    /\ Start
    /\ UNCHANGED <<srcvars, db, serial, trouble, closed, is_running, sd, outage>>
    /\ UNCHANGED passvars

\* a request arrives: POST /sync/restart, POST /sync/once or /sync/force, or
\* the shutdown event
Request(op) ==
    /\ req.pc = "idle"
    /\ client # 0
    /\ left.reqs > 0
    /\ left' = [left EXCEPT !.reqs = @ - 1]
    /\ req' = [pc |-> IF op = "once" THEN "sync" ELSE "stop", op |-> op, status |-> "none",
               started |-> req.started]
    /\ sd' = IF op = "once"
             THEN [sd EXCEPT ![0] = [pc |-> "loop", result |-> "none"]]
             ELSE sd
    /\ UNCHANGED <<srcvars, db, serial, stop_event, trouble, client, closed, is_running,
                   thread, th, outage>>
    /\ UNCHANGED etlvars

\* stop(): self._stop_event.set(); self.is_running = False
StopSignal ==
    /\ req.pc = "stop"
    /\ stop_event' = TRUE
    /\ is_running' = FALSE
    /\ req' = [req EXCEPT !.pc = "close"]
    /\ UNCHANGED <<srcvars, db, serial, trouble, client, closed, thread, th, sd, outage, left>>
    /\ UNCHANGED etlvars

\* stop(): if self.client: self.client.close()
StopClose ==
    /\ req.pc = "close"
    /\ closed' = IF client # 0 THEN closed \cup {client} ELSE closed
    /\ req' = [req EXCEPT !.pc = "join"]
    /\ UNCHANGED <<srcvars, db, serial, stop_event, trouble, client, is_running, thread, th,
                   sd, outage, left>>
    /\ UNCHANGED etlvars

\* a join that waits for the thread however long it takes
join_forever(t) == FALSE

\* the thread is where it can stay longer than any timeout: inside a pass,
\* or waiting for a change on a stream that is open
Busy(t) ==
    /\ is_alive(t)
    /\ \/ th[t].pc = "sync"
       \/ th[t].pc = "next" /\ StreamOpen(t) /\ th[t].stream = <<>>

\* self._thread.join(timeout=10) returns at the timeout, the thread alive
join_timeout(t) == Busy(t)

\* stop(): the join is skipped (no thread, or not alive), or returns because
\* the thread has ended, or returns at the timeout; stop() returns, and
\* shutdown_event goes on to close_pool()
StopJoin ==
    /\ req.pc = "join"
    /\ ~is_alive(thread) \/ join_timeout(thread)
    /\ req' = [req EXCEPT !.pc = IF req.op = "restart" THEN "start" ELSE "down"]
    /\ pool' = IF req.op = "restart" THEN pool ELSE close_pool(pool)
    /\ UNCHANGED <<srcvars, db, serial, stop_event, trouble, client, closed, is_running,
                   thread, th, sd, outage, left>>
    /\ UNCHANGED passvars

\* restart_sync: after stop_realtime_sync() and time.sleep(2),
\* start_realtime_sync()
RestartStart ==
    /\ req.pc = "start"
    /\ Start
    /\ UNCHANGED <<srcvars, db, serial, trouble, closed, is_running, sd, outage, left>>
    /\ UNCHANGED etlvars

\* watch_changes up to db.watch(): the thread takes self.client as it is now;
\* on a client that is closed or cannot reach the store db.watch() raises,
\* and the except clause sets is_running = False
ThreadOpens(t) ==
    /\ th[t].pc = "born"
    /\ IF client \in closed \/ outage
       THEN /\ th' = [th EXCEPT ![t].pc = "dead", ![t].client = client]
            /\ is_running' = FALSE
       ELSE /\ th' = [th EXCEPT ![t].pc = "opened", ![t].client = client]
            /\ UNCHANGED is_running
    /\ UNCHANGED <<srcvars, db, serial, stop_event, trouble, client, closed, thread, req, sd,
                   outage, left>>
    /\ UNCHANGED etlvars

\* inside "with db.watch() as stream": self.is_running = True
ThreadRunning(t) ==
    /\ th[t].pc = "opened"
    /\ is_running' = TRUE
    /\ th' = [th EXCEPT ![t].pc = "next"]
    /\ UNCHANGED <<srcvars, db, serial, stop_event, trouble, client, closed, thread, req, sd,
                   outage, left>>
    /\ UNCHANGED etlvars

\* "for change in stream" yields the next change; it is late when a stop()
\* has set the stop event since start() created this thread
StreamNext(t) ==
    /\ th[t].pc = "next"
    /\ th[t].stream # <<>>
    /\ Head(th[t].stream).coll # ""
    /\ th' = [th EXCEPT ![t].pc = "change", ![t].change = Head(th[t].stream),
                        ![t].late = (stop_event \/ t # thread),
                        ![t].stream = Tail(th[t].stream)]
    /\ UNCHANGED <<srcvars, db, serial, stop_event, trouble, client, closed, is_running,
                   thread, req, sd, outage, left>>
    /\ UNCHANGED etlvars

\* "for change in stream" raises: the client was closed under the stream, or
\* the store cannot be reached; the except clause sets is_running = False
StreamRaises(t) ==
    /\ th[t].pc = "next"
    /\ th[t].client \in closed \/ outage
    /\ th' = [th EXCEPT ![t].pc = "dead", ![t].stream = <<>>]
    /\ is_running' = FALSE
    /\ UNCHANGED <<srcvars, db, serial, stop_event, trouble, client, closed, thread, req, sd,
                   outage, left>>
    /\ UNCHANGED etlvars

\* "for change in stream" ends without an exception: the server invalidated
\* the change stream (the watched database was dropped), the invalidate event
\* names no collection and after it the iteration stops; watch_changes leaves
\* the with block and returns, and no statement after the loop touches
\* is_running
StreamEnds(t) ==
    /\ th[t].pc = "next"
    /\ th[t].stream # <<>>
    /\ Head(th[t].stream).coll = ""
    /\ th' = [th EXCEPT ![t].pc = "dead", ![t].stream = <<>>]
    /\ UNCHANGED <<srcvars, db, serial, stop_event, trouble, client, closed, is_running,
                   thread, req, sd, outage, left>>
    /\ UNCHANGED etlvars

\* the body of the loop for one change: break when a stop was asked for,
\* sync_data() when the change is in a collection of collections_to_watch,
\* else on to the next change
ChangeChecked(t) ==
    /\ th[t].pc = "change"
    /\ IF stop_event \/ ~is_running
       THEN /\ th' = [th EXCEPT ![t].pc = "dead", ![t].change = NoChange,
                                ![t].late = FALSE, ![t].stream = <<>>]
            /\ UNCHANGED sd
       ELSE IF th[t].change.coll \in collections_to_watch
       THEN /\ th' = [th EXCEPT ![t].pc = "sync", ![t].change = NoChange,
                                ![t].late = FALSE, ![t].npass = @ + 1,
                                ![t].served = Append(@, th[t].change.during)]
            /\ sd' = [sd EXCEPT ![t] = [pc |-> "loop", result |-> "none"]]
       ELSE /\ th' = [th EXCEPT ![t].pc = "next", ![t].change = NoChange,
                                ![t].late = FALSE]
            /\ UNCHANGED sd
    /\ UNCHANGED <<srcvars, db, serial, stop_event, trouble, client, closed, is_running,
                   thread, req, outage, left>>
    /\ UNCHANGED etlvars

\* the "status" of the answer of /sync/once and /sync/force: "success" after
\* sync_data() returned, "error" from the except clause when it raised
sync_once(raised) == IF raised THEN "error" ELSE "success"

\* sync_data returns to its caller: the watcher's loop, or the handler of
\* /sync/once or /sync/force, which answers
SdReturn(c, res) ==
    /\ sd' = [sd EXCEPT ![c] = [pc |-> "off", result |-> res]]
    /\ IF c = 0
       THEN req' = [pc |-> "idle", op |-> "none", status |-> sync_once(FALSE),
                    started |-> req.started]
            /\ UNCHANGED th
       ELSE th' = [th EXCEPT ![c].pc = "next"] /\ UNCHANGED req

\* sync_data, top of the first attempt: return when the stop event is set
SdTop(c) ==
    /\ sd[c].pc = "loop"
    /\ IF stop_event
       THEN SdReturn(c, "aborted")
       ELSE sd' = [sd EXCEPT ![c].pc = "try"] /\ UNCHANGED <<th, req>>
    /\ UNCHANGED <<srcvars, db, serial, stop_event, trouble, client, closed, is_running,
                   thread, outage, left>>
    /\ UNCHANGED etlvars

\* the client documents a pass reads and maps
ClientesRead == MapAll([k \in 1..Len(extract_with_usuarios(irr, "clientes", FALSE)) |->
                          map_cliente(extract_with_usuarios(irr, "clientes", FALSE)[k], now)])

\* sync_data, an attempt with both stores reachable: the pass completes
SdCompletes(c) ==
    /\ sd[c].pc = "try"
    /\ ~outage
    /\ LET st == Upsert(StyleOf("clientes"), "clientes", db["clientes"],
                        serial["clientes"], ClientesRead.recs)
       IN /\ db' = [db EXCEPT !["clientes"] = Commit(db["clientes"], st)]
          /\ serial' = [serial EXCEPT !["clientes"] = st.serial]
    /\ SdReturn(c, "completed")
    /\ UNCHANGED <<srcvars, stop_event, trouble, client, closed, is_running, thread, outage,
                   left>>
    /\ UNCHANGED etlvars

\* a sync_data whose last failure reaches the caller and ends its thread
SdFailsRaising(c) ==
    /\ sd[c].pc = "try"
    /\ outage
    /\ sd' = [sd EXCEPT ![c] = [pc |-> "off", result |-> "raised"]]
    /\ IF c = 0
       THEN req' = [pc |-> "idle", op |-> "none", status |-> sync_once(TRUE),
                    started |-> req.started]
            /\ UNCHANGED <<th, is_running>>
       ELSE th' = [th EXCEPT ![c].pc = "dead"] /\ is_running' = FALSE /\ UNCHANGED req
    /\ UNCHANGED <<srcvars, db, serial, stop_event, trouble, client, closed, thread,
                   outage, left>>
    /\ UNCHANGED etlvars

\* sync_data while a store cannot be reached: every attempt goes to the
\* except clause, which returns when the stop event is set, and after the
\* last attempt
SdFails(c) ==
    /\ sd[c].pc = "try"
    /\ outage
    /\ SdReturn(c, IF stop_event THEN "aborted" ELSE "failed")
    /\ UNCHANGED <<srcvars, db, serial, stop_event, trouble, client, closed, is_running,
                   thread, outage, left>>
    /\ UNCHANGED etlvars

\* a store stops being reachable
OutageBegins ==
    /\ ~outage
    /\ trouble > 0
    /\ trouble' = trouble - 1
    /\ outage' = TRUE
    /\ UNCHANGED <<srcvars, db, serial, stop_event, client, closed, is_running, thread, th,
                   req, sd, left>>
    /\ UNCHANGED etlvars

OutageEnds ==
    /\ outage
    /\ outage' = FALSE
    /\ UNCHANGED <<srcvars, db, serial, stop_event, trouble, client, closed, is_running,
                   thread, th, req, sd, left>>
    /\ UNCHANGED etlvars

\* a watcher is in its loop, not asked to stop
Watching ==
    /\ is_running /\ ~stop_event /\ req.pc \notin {"stop", "close", "join", "down"}
    /\ \E t \in Threads : StreamOpen(t) /\ th[t].pc \in {"next", "change", "sync"}

\* the first client document that is not in the source yet, 0 when all are
NextCliente ==
    IF \E i \in 1..NClientes : Has(irr, "clientes", i, "absent")
    THEN CHOOSE i \in 1..NClientes :
            /\ Has(irr, "clientes", i, "absent")
            /\ \A j \in 1..(i - 1) : ~Has(irr, "clientes", j, "absent")
    ELSE 0

\* the application changes a collection of the source while a change stream
\* is open: every open change stream reports it.  A change of clientes inserts the next client document,
\* with or without a usuarioId that names a user
SourceChange(coll, withUser) ==
    /\ left.notes > 0
    /\ \E t \in Threads : StreamOpen(t)
    /\ left' = [left EXCEPT !.notes = @ - 1]
    /\ coll # "clientes" => withUser
    /\ IF coll = "clientes" /\ NextCliente # 0
       THEN /\ irr' = (irr \ {<<"clientes", NextCliente, "absent">>})
                         \cup (IF withUser THEN {} ELSE {<<"clientes", NextCliente, "nouser">>})
            /\ watched' = IF Watching THEN watched \cup {NextCliente} ELSE watched
       ELSE UNCHANGED <<irr, watched>>
    /\ th' = [t \in Threads |->
               IF StreamOpen(t)
               THEN [th[t] EXCEPT !.stream =
                        Append(@, [coll |-> coll,
                                   during |-> IF th[t].pc = "sync" THEN th[t].npass ELSE 0])]
               ELSE th[t]]
    /\ UNCHANGED <<db, serial, stop_event, trouble, client, closed, is_running, thread,
                   req, sd, outage>>
    /\ UNCHANGED etlvars

\* the watched database is dropped while a change stream is open: every open
\* change stream gets the invalidate event, which closes it
DatabaseDropped ==
    /\ left.notes > 0
    /\ \E t \in Threads : StreamOpen(t)
    /\ left' = [left EXCEPT !.notes = @ - 1]
    /\ th' = [t \in Threads |->
               IF StreamOpen(t) THEN [th[t] EXCEPT !.stream = Append(@, NoChange)]
               ELSE th[t]]
    /\ UNCHANGED <<srcvars, db, serial, stop_event, trouble, client, closed, is_running,
                   thread, req, sd, outage>>
    /\ UNCHANGED etlvars

\* outages the model lets happen while the watcher runs
MaxOutages == 1

\* the application is starting: only the first client document is in the
\* source, nothing is in the target
WatcherStarts(reqs, notes) ==
    /\ irr = {<<"clientes", i, "absent">> : i \in 2..NClientes}
    /\ now = Day0
    /\ db = [t \in Tables |-> {}]
    /\ serial = [t \in Tables |-> 0]
    /\ stop_event = FALSE
    /\ pc = "idle"
    /\ attempt = 0
    /\ mongo_client = "none"
    /\ pg_conn = "none"
    /\ unclosed = [mongo |-> 0, pg |-> 0]
    /\ docs = NoDocs
    /\ maps = NoMaps
    /\ done = <<>>
    /\ sleeps = <<>>
    /\ errs = <<>>
    /\ result = "none"
    /\ passes = 0
    /\ trouble = MaxOutages
    /\ clean = TRUE
    /\ settled = FALSE
    /\ WatcherInit
    /\ left = [reqs |-> reqs, notes |-> notes]

InitWatcher == WatcherStarts(MaxRequests, FewNotes)

NextWatcher ==
    \/ Startup
    \/ \E op \in {"restart", "once", "shutdown"} : Request(op)
    \/ StopSignal
    \/ StopClose
    \/ StopJoin
    \/ RestartStart
    \/ \E t \in Threads : ThreadOpens(t)
    \/ \E t \in Threads : ThreadRunning(t)
    \/ \E t \in Threads : StreamNext(t)
    \/ \E t \in Threads : StreamRaises(t)
    \/ \E t \in Threads : StreamEnds(t)
    \/ \E t \in Threads : ChangeChecked(t)
    \/ \E c \in Contexts : SdTop(c)
    \/ \E c \in Contexts : SdCompletes(c)
    \/ \E c \in Contexts : SdFails(c)
    \/ OutageBegins
    \/ OutageEnds
    \/ \E coll \in ChangedCollections, withUser \in BOOLEAN : SourceChange(coll, withUser)
    \/ DatabaseDropped

SpecWatcher == InitWatcher /\ [][NextWatcher]_vars

\* the watcher left to itself: the application starts and no other request
\* arrives
InitStream == WatcherStarts(1, MaxNotes)

NextStream ==
    \/ Startup
    \/ \E t \in Threads : ThreadOpens(t)
    \/ \E t \in Threads : ThreadRunning(t)
    \/ \E t \in Threads : StreamNext(t)
    \/ \E t \in Threads : StreamRaises(t)
    \/ \E t \in Threads : ChangeChecked(t)
    \/ \E c \in Contexts : SdTop(c)
    \/ \E c \in Contexts : SdCompletes(c)
    \/ \E c \in Contexts : SdFails(c)
    \/ OutageBegins
    \/ OutageEnds
    \/ \E coll \in ChangedCollections, withUser \in BOOLEAN : SourceChange(coll, withUser)

SpecStream == InitStream /\ [][NextStream]_vars

\* requests the model lets arrive when the source is not changed
ManyRequests == 3

\* the manual triggers and the start/stop control, the source left unchanged
InitManual == WatcherStarts(ManyRequests, 0)

NextManual ==
    \/ Startup
    \/ \E op \in {"restart", "once", "shutdown"} : Request(op)
    \/ StopSignal
    \/ StopClose
    \/ StopJoin
    \/ RestartStart
    \/ \E t \in Threads : ThreadOpens(t)
    \/ \E t \in Threads : ThreadRunning(t)
    \/ \E t \in Threads : StreamRaises(t)
    \/ \E c \in Contexts : SdTop(c)
    \/ \E c \in Contexts : SdCompletes(c)
    \/ \E c \in Contexts : SdFails(c)
    \/ OutageBegins
    \/ OutageEnds

SpecManual == InitManual /\ [][NextManual]_vars

\* requests the model lets hold a pooled connection at the same time
MaxReaders == 2

\* what a call of init_pool, of close_pool or of get_conn leaves alone
nopoolvars == <<irr, db, serial, stop_event, trouble, client, closed, is_running, thread,
                th, req, sd, outage, watched, left, passvars>>

\* some code of the process calls init_pool()
InitPoolCalled ==
    /\ pool' = init_pool(pool)
    /\ UNCHANGED nopoolvars

\* some code of the process calls close_pool()
ClosePoolCalled ==
    /\ pool' = close_pool(pool)
    /\ UNCHANGED nopoolvars

\* a read endpoint enters "with get_conn() as conn" while _POOL is set, and
\* takes a connection of the pool
GetConn ==
    /\ pool.open
    /\ pool.inuse < MaxReaders
    /\ pool' = [pool EXCEPT !.inuse = @ + 1]
    /\ UNCHANGED nopoolvars

\* the endpoint leaves the with block: the connection goes back
PutConn ==
    /\ pool.inuse > 0
    /\ pool' = [pool EXCEPT !.inuse = @ - 1]
    /\ UNCHANGED nopoolvars

\* passes of sync_data while the read endpoints are served and the pool comes
\* and goes
InitPool == WatcherStarts(0, 0)

NextPool ==
    \/ Invoke
    \/ MongoConnect
    \/ PgConnect
    \/ PgConnectFails
    \/ Extract
    \/ \E t \in Tables : LoadStage(t)
    \/ ReadIdMaps
    \/ ExceptBackoff
    \/ InitPoolCalled
    \/ ClosePoolCalled
    \/ GetConn
    \/ PutConn

SpecPool == InitPool /\ [][NextPool]_vars

(***************************************************************************)
(* Properties.                                                             *)
(***************************************************************************)
Origenes(table) == {r.origen_id : r \in table}

DoneSet == {done[i] : i \in 1..Len(done)}

\* the step is one entity type's stage leaving its place (LoadStage or
\* LoadStageFails), not an environment step taken while sync_data is there
StageStep(t) == pc = t /\ pc' # pc

\* the records of stage t whose statement the table rejects
RejectedAt(t) ==
    {k \in 1..Len(MapAll(Mapped(t)).recs) : Rejects(t, MapAll(Mapped(t)).recs[k].c)}

\* the documents of stage t whose mapper raises
UnmappableAt(t) == {k \in 1..Len(docs[t]) : Mapped(t)[k].raised}

\* C1: once an undisturbed invocation has returned over a snapshot, every
\* step of a later undisturbed invocation over the same snapshot leaves every
\* table as it is (same rows, same origen_id set, same column values).
C1_Idempotence == [][(settled /\ clean) => db' = db]_vars

\* C2: when a stage writes and commits a batch in which exactly one record's
\* statement is rejected, every other record of the batch is in the table
\* afterwards.
C2_PerRecordIsolation ==
    [][\A t \in Tables :
         (StageStep(t) /\ pc' # "except" /\ Cardinality(RejectedAt(t)) = 1)
            => \A k \in 1..Len(MapAll(Mapped(t)).recs) :
                  k \notin RejectedAt(t)
                     => HasOrigen(db'[t], MapAll(Mapped(t)).recs[k].origen_id)]_vars

\* C3: when a stage meets exactly one document its mapper raises on (and the
\* store does not fail), the attempt goes on instead of failing, and the
\* sibling documents whose statement is accepted are in the table afterwards.
C3_MalformedIsolation ==
    [][\A t \in Tables :
         (StageStep(t) /\ trouble' = trouble /\ Cardinality(UnmappableAt(t)) = 1)
            => /\ pc' # "except"
               /\ \A k \in 1..Len(docs[t]) :
                     (k \notin UnmappableAt(t) /\ ~Rejects(t, Mapped(t)[k].rec.c))
                        => HasOrigen(db'[t], Mapped(t)[k].rec.origen_id)]_vars

\* C4: no table ever holds two rows with the same origen_id.
C4_UniqueOrigen ==
    \A t \in Tables : \A r1, r2 \in db[t] : r1.origen_id = r2.origen_id => r1 = r2

\* a table holds several rows and has served more upserts than it has rows:
\* some origen_id was upserted again
C4_Witness ==
    /\ passes = 2 /\ pc = "idle" /\ result = "completed"
    /\ Cardinality(db["clientes"]) >= 2
    /\ serial["clientes"] > Cardinality(db["clientes"])

\* C5: every step keeps each existing row under its id and origen_id, and a
\* table grows only by rows of origen_ids it did not have.
C5_StableId ==
    [][\A t \in Tables :
         /\ \A r \in db[t] : \E r2 \in db'[t] : r2.id = r.id /\ r2.origen_id = r.origen_id
         /\ Cardinality(db'[t]) = Cardinality(db[t])
                + Cardinality(Origenes(db'[t]) \ Origenes(db[t]))]_vars

\* both sales were rewritten to "Confirmada" in the source, one of them by an
\* edit after the first pass, and the rows written first (ids 1 and 2) carry
\* the new status
C5_Witness ==
    /\ {<<"ventas", 1, "estado">>, <<"ventas", 2, "estado">>} \subseteq irr
    /\ \A r \in db["ventas"] : r.c.estado = "confirmada" /\ r.id \in {1, 2}
    /\ Cardinality(db["ventas"]) = 2
    /\ serial["ventas"] > 2

\* C6: no step removes an origen_id from a table.
C6_NoDeletion == [][\A t \in Tables : Origenes(db[t]) \subseteq Origenes(db'[t])]_vars

\* a second pass has completed over a snapshot from which a client document,
\* or a client's user, is gone, and the client's row is still there
C6_Witness ==
    /\ passes = 2 /\ pc = "idle" /\ result = "completed" /\ settled
    /\ \E i \in 1..NClientes :
          /\ Has(irr, "clientes", i, "absent") \/ Has(irr, "clientes", i, "nouser")
          /\ HasOrigen(db["clientes"], OidStr(ClienteOid(i)))

Independent == {"clientes", "agentes", "servicios", "paquetes_turisticos"}

\* C7: a table is written only by its own stage; the identifier maps are read
\* only after the four independent batches of the attempt are committed, sales
\* are loaded only after the maps are read, sale-lines only after the sale
\* batch is committed.
C7_DependencyOrder ==
    [][/\ \A t \in Tables : db'[t] # db[t] => pc = t
       /\ pc = "idmaps" => Independent \subseteq DoneSet
       /\ pc = "ventas" => (Independent \cup {"idmaps"}) \subseteq DoneSet
       /\ pc = "detalle_venta" => (Independent \cup {"idmaps", "ventas"}) \subseteq DoneSet
       /\ maps' # maps => (pc \in {"idmaps", "ventas"} \/ pc' = "idle")]_vars

C7_Witness ==
    /\ pc = "detalle_venta"
    /\ db["ventas"] # {}
    /\ DOMAIN maps.cliente_map # {}
    /\ docs["detalle_venta"] # <<>>

\* the reference fields a stage resolves: <<document field, map, column>>
RefFields(t) ==
    CASE t = "ventas" -> {<<"clienteId", "cliente_map", "cliente_id">>,
                          <<"agenteId", "agente_map", "agente_id">>}
      [] t = "detalle_venta" -> {<<"ventaId", "venta_map", "venta_id">>,
                                 <<"servicioId", "servicio_map", "servicio_id">>,
                                 <<"paqueteId", "paquete_map", "paquete_id">>}
      [] OTHER -> {}

\* the reference is given and is no key of the identifier map
Unresolved(ref, id_map) == Truthy(ref) /\ PyStr(ref) \notin DOMAIN id_map

\* C8: when the sale (sale-line) stage runs, a document with an unresolved
\* reference is mapped to a record with that foreign key null; the stage fails
\* only on a store fault or a document its mapper raises on, never on the
\* reference; and when no statement of the batch is rejected the row is in the
\* table afterwards with the foreign key null.
C8_UnresolvedIsNull ==
    [][\A t \in {"ventas", "detalle_venta"} : \A f \in RefFields(t) :
         \A k \in 1..Len(docs[t]) :
            (StageStep(t) /\ Unresolved(docs[t][k][f[1]], maps[f[2]]))
               => /\ Mapped(t)[k].rec.c[f[3]] = NULL
                  /\ pc' = "except" => (trouble' < trouble \/ UnmappableAt(t) # {})
                  /\ (pc' # "except" /\ RejectedAt(t) = {})
                        => /\ HasOrigen(db'[t], OidStr(docs[t][k]._id))
                           /\ RowOf(db'[t], OidStr(docs[t][k]._id)).c[f[3]] = NULL]_vars

\* the sale stage has committed a sale whose client reference names a client
\* that does not exist, with cliente_id null
C8_Witness ==
    /\ pc = "detalle_venta"
    /\ \E i \in 1..NVentas :
          /\ Has(irr, "ventas", i, "unresolved")
          /\ HasOrigen(db["ventas"], OidStr(VentaOid(i)))
          /\ RowOf(db["ventas"], OidStr(VentaOid(i))).c.cliente_id = NULL

\* the identifiers a reference field of the model can hold
ReferencedOids ==
    {ClienteOid(i) : i \in 1..NClientes} \cup {AgenteOid(i) : i \in 1..NAgentes}
       \cup {ServicioOid(i) : i \in 1..NServicios} \cup {PaqueteOid(i) : i \in 1..NPaquetes}
       \cup {VentaOid(i) : i \in 1..NVentas} \cup {Dangling(20), Dangling(60)}

\* C9: against every identifier map sync_data holds, a reference given as a
\* native identifier and the same reference given as its string encoding
\* resolve to the same foreign key, and a sale (sale-line) document maps to the
\* same record whichever way a reference field of it is typed.
C9_TypeDrift ==
    pc \in {"ventas", "detalle_venta"} =>
       \A n \in ReferencedOids :
          /\ \A m \in DOMAIN maps :
                ForeignKey(OidRef(n), maps[m]) = ForeignKey(StrRef(OidStr(n)), maps[m])
          /\ \A k \in 1..Len(docs["ventas"]) : \A f \in {"clienteId", "agenteId"} :
                map_venta([docs["ventas"][k] EXCEPT ![f] = OidRef(n)],
                          maps.cliente_map, maps.agente_map, now)
                   = map_venta([docs["ventas"][k] EXCEPT ![f] = StrRef(OidStr(n))],
                               maps.cliente_map, maps.agente_map, now)
          /\ \A k \in 1..Len(docs["detalle_venta"]) :
                \A f \in {"ventaId", "servicioId", "paqueteId"} :
                   map_detalle_venta([docs["detalle_venta"][k] EXCEPT ![f] = OidRef(n)],
                                     maps.venta_map, maps.servicio_map, maps.paquete_map)
                      = map_detalle_venta(
                           [docs["detalle_venta"][k] EXCEPT ![f] = StrRef(OidStr(n))],
                           maps.venta_map, maps.servicio_map, maps.paquete_map)

\* a sale whose client reference is a string and a sale whose client reference
\* is native have both been written with the row id of their client
C9_Witness ==
    /\ pc = "detalle_venta"
    /\ \E j, k \in 1..Len(docs["ventas"]) :
          /\ docs["ventas"][j].clienteId.t = "str"
          /\ docs["ventas"][k].clienteId.t = "oid"
          /\ \A i \in {j, k} :
                /\ HasOrigen(db["ventas"], OidStr(docs["ventas"][i]._id))
                /\ RowOf(db["ventas"], OidStr(docs["ventas"][i]._id)).c.cliente_id # NULL
                /\ RowOf(db["ventas"], OidStr(docs["ventas"][i]._id)).c.cliente_id
                      = ForeignKey(docs["ventas"][i].clienteId, maps.cliente_map)

\* the seconds sync_data itself slept between its attempts, in order
SyncDelays ==
    LET own == SelectSeq(sleeps, LAMBDA x : x[1] = "sync_data")
    IN [i \in 1..Len(own) |-> own[i][2]]

\* C10: an invocation makes at most max_attempts (3) attempts; once the source
\* has failed attempts 1 and 2 and nothing has failed since, sync_data has
\* slept 1 s and then 2 s, is in (or has ended) attempt 3, and unless it was
\* cancelled it ends with the pass completed.
C10_RetryBackoff ==
    /\ attempt <= max_attempts
    /\ Len(errs) <= max_attempts
    /\ (errs = <<"mongo", "mongo">> /\ pc # "except" /\ result # "aborted")
          => /\ SyncDelays = <<1, 2>>
             /\ pc # "idle" => attempt = 3
             /\ pc = "idle" => result = "completed"

C10_Witness ==
    /\ pc = "idle"
    /\ errs = <<"mongo", "mongo">>
    /\ result = "completed"
    /\ SyncDelays = <<1, 2>>
    /\ db["detalle_venta"] # {}

\* C12: a step sync_data takes at the top of an attempt with the stop event
\* set returns at once: no connection is opened, nothing is written, nothing
\* is slept; and a step it takes in the except clause with the stop event set
\* returns without a backoff sleep and without another attempt.
C12_CancelAtBoundaries ==
    [][((pc \in {"loop", "except"} /\ stop_event /\ pc' # pc)
          => /\ pc' = "idle" /\ result' = "aborted" /\ attempt' = 0
             /\ db' = db /\ serial' = serial /\ sleeps' = sleeps
             /\ unclosed'.mongo <= unclosed.mongo /\ unclosed'.pg <= unclosed.pg)
       /\ ((pc = "loop" /\ stop_event /\ pc' # pc) => unclosed' = unclosed)]_vars

\* an invocation whose first attempt failed was cancelled in the except
\* clause: it returned without having slept
C12_Witness ==
    /\ pc = "idle" /\ result = "aborted"
    /\ Len(errs) = 1
    /\ sleeps = <<>>

\* C13: a table is written only by its own stage, one batch per step; a step
\* in which a stage fails, and every step of the except clause after it,
\* leaves every table as committed so far; and from the except clause the
\* attempt goes to no later stage.
C13_PerTypeDurability ==
    [][/\ \A t \in Tables : db'[t] # db[t] => (pc = t /\ \A x \in Tables \ {t} : db'[x] = db[x])
       /\ (pc \in Tables /\ pc' = "except") => db' = db
       /\ pc = "except" => (db' = db /\ pc' \in {"except", "loop", "idle"})]_vars

\* an attempt has failed in the sale stage: the four batches before it are in
\* their tables and no sale or sale-line has been written
C13_Witness ==
    /\ pc = "except"
    /\ done = <<"clientes", "agentes", "servicios", "paquetes_turisticos", "idmaps">>
    /\ \A t \in Independent : db[t] # {}
    /\ db["ventas"] = {} /\ db["detalle_venta"] = {}

\* the contexts that are inside sync_data
InSync == {c \in Contexts : sd[c].pc # "off"}

\* C11: every step that ends a pass run by a watcher thread is a normal return
\* of sync_data (completed, failed or aborted), and it leaves the thread in
\* its loop, at the next change of the stream.
C11_FailedPassNotFatal ==
    [][\A t \in Threads :
         (sd[t].pc # "off" /\ sd'[t].pc = "off")
            => /\ sd'[t].result \in {"completed", "failed", "aborted"}
               /\ th'[t].pc = "next"
               /\ th'[t].stream = th[t].stream]_vars

\* a watcher whose first pass failed has taken the next change from its
\* stream and is running its second pass
C11_Witness ==
    \E t \in Threads :
        /\ th[t].npass = 1 /\ sd[t].pc = "off" /\ sd[t].result = "failed"
        /\ th[t].pc = "change" /\ th[t].change.coll = "clientes"

\* C14: at most one execution of sync_data is in progress.
C14_OnePassAtATime == Cardinality(InSync) <= 1

\* C15: at most one watcher thread is alive.
C15_SingleWatcher == Cardinality({t \in Threads : is_alive(t)}) <= 1

\* C16: of the changes that arrived while one pass of a watcher was in
\* progress, at most one starts a further pass.
C16_BurstCollapse ==
    \A t \in Threads : \A i, j \in 1..Len(th[t].served) :
       (th[t].served[i] > 0 /\ th[t].served[i] = th[t].served[j]) => i = j

\* C17: when a watcher that is running and not asked to stop handles a change
\* of one of the six collections sync_data reads, it calls sync_data.
C17_EveryCollectionTriggers ==
    [][\A t \in Threads :
         (th[t].pc = "change" /\ th'[t].pc # "change"
            /\ th[t].change.coll \in SourceCollections
            /\ is_running /\ ~stop_event)
            => (th'[t].pc = "sync" /\ sd'[t].pc = "loop")]_vars

\* the stores were reachable all along and the watcher has handled every
\* change it was told of
Quiet ==
    /\ trouble = MaxOutages /\ ~outage
    /\ Watching
    /\ \A t \in Threads : is_alive(t) => (th[t].pc = "next" /\ th[t].stream = <<>>)

\* C18: once the watcher has handled every change, each client document
\* that was inserted while it was watching has its row in clientes.
C18_Propagation ==
    Quiet => \A i \in watched : HasOrigen(db["clientes"], OidStr(ClienteOid(i)))

\* C19: inside stop(), after its first statement the stop event is set; at
\* the join the client is closed; and at the join stop() can return whenever
\* the thread has ended or is somewhere it can stay for long (inside a pass):
\* it is never held by such a thread; otherwise the thread has a next step to
\* take, so stop() is never stuck.
C19_BoundedStop ==
    /\ req.pc \in {"close", "join"} => stop_event
    /\ req.pc = "join" => (client # 0 => client \in closed)
    /\ (req.pc = "join" /\ (~is_alive(thread) \/ Busy(thread))) => ENABLED StopJoin
    /\ req.pc = "join" => \/ ENABLED StopJoin
                          \/ ENABLED ThreadOpens(thread)
                          \/ ENABLED ThreadRunning(thread)
                          \/ ENABLED StreamNext(thread)
                          \/ ENABLED StreamRaises(thread)
                          \/ ENABLED StreamEnds(thread)
                          \/ ENABLED ChangeChecked(thread)

\* stop() has returned while its thread is still inside a pass
C19_Witness ==
    /\ req.pc \in {"start", "down"}
    /\ is_alive(thread) /\ th[thread].pc = "sync" /\ sd[thread].pc = "try"
    /\ stop_event /\ client \in closed

\* C20: whenever the change stream fails to open, raises or ends, so that the
\* watcher's loop ends, is_running is false afterwards; a thread that has
\* ended opens no stream again; and a thread is created only by start().
C20_StreamEndMeansStopped ==
    [][\A t \in Threads :
         /\ (th[t].pc \in {"born", "next"} /\ th'[t].pc = "dead")
               => is_running' = FALSE
         /\ th[t].pc = "dead" => th'[t].pc = "dead"
         /\ (th[t].pc = "unborn" /\ th'[t].pc # "unborn")
               => (req.pc \in {"idle", "start"} /\ thread' = t)]_vars

\* C21: the answer of /sync/once and /sync/force tells how the pass ended:
\* its status is "success" exactly when the sync_data the handler called
\* completed, and "error" when it failed or was aborted.
C21_OutcomeAsData ==
    (req.pc = "idle" /\ req.status # "none")
        => /\ req.status \in {"success", "error"}
           /\ req.status = "success" <=> sd[0].result = "completed"

\* C22: every sync_data a manual trigger calls goes on to an attempt (it
\* connects, reads, maps and writes), whatever the watcher's state: it never
\* returns from the top of its loop.
C22_ManualPassAlwaysRuns ==
    [][(sd[0].pc = "loop" /\ sd'[0].pc # "loop") => sd'[0].pc = "try"]_vars

\* the identifiers of the documents of a list
IdsOf(list) == {list[k]._id : k \in 1..Len(list)}

\* the documents of clientes or agentes whose usuarioId, a string converted
\* to the identifier it encodes, is the _id of a document of usuarios
WithUsuario(I, coll) ==
    {d._id : d \in {x \in {Collection(I, coll)[k] : k \in 1..Len(Collection(I, coll))} :
                        \E u \in Usuarios(I) : u._id = usuarioIdConverted(x)}}

\* C23: in an invocation no fault was injected into, the client read and the
\* agent read return exactly the documents whose user reference matches a
\* user; and after the first pass's client batch, when no client row is
\* rejected, the table holds a row for exactly those clients.
C23_DropUnparented ==
    /\ (pc = "clientes" /\ clean)
          => \A coll \in {"clientes", "agentes"} : IdsOf(docs[coll]) = WithUsuario(irr, coll)
    /\ (pc = "agentes" /\ clean /\ passes = 1
            /\ \A i \in 1..NClientes : ~Has(irr, "clientes", i, "reject"))
          => Origenes(db["clientes"]) = {OidStr(n) : n \in WithUsuario(irr, "clientes")}

\* what a read returns when it does not fail
ReadOf(t) ==
    IF t \in {"clientes", "agentes"}
    THEN extract_with_usuarios(irr, t, FALSE)
    ELSE extract_collection(irr, t, FALSE)

\* C24: when one of the six reads fails, that read yields the empty list and
\* the other five what they read, and the attempt goes on to its first stage
\* without a failure recorded; a stage whose list is empty leaves its table
\* as it is and, unless the store fails, goes on to the next stage.
C24_ReaderDegradesToEmpty ==
    [][/\ (pc = "extract" /\ pc' # pc /\ trouble' = trouble - 1)
            => /\ pc' = FirstStage /\ errs' = errs /\ attempt' = attempt
               /\ \E t \in Tables :
                     /\ docs'[t] = <<>>
                     /\ \A x \in Tables \ {t} : docs'[x] = ReadOf(x)
       /\ \A t \in Tables :
             (pc = t /\ docs[t] = <<>> /\ pc' # pc)
                => /\ db'[t] = db[t]
                   /\ trouble' = trouble => pc' # "except"]_vars

\* a first pass over the regular snapshot has completed at its first attempt
\* and the table of services is empty: the read of servicios failed, and the
\* sale-lines, read after it, were written
C24_Witness ==
    /\ irr = {} /\ passes = 1 /\ pc = "idle" /\ result = "completed" /\ errs = <<>>
    /\ db["servicios"] = {}
    /\ db["clientes"] # {} /\ db["detalle_venta"] # {}

\* the local of sync_data that holds the map of each table of MapTables
MapNames == <<"cliente_map", "agente_map", "servicio_map", "paquete_map">>

\* the identifier map each foreign-key column of sales and sale-lines is
\* resolved with
MapOfColumn ==
    [cliente_id |-> "cliente_map", agente_id |-> "agente_map", venta_id |-> "venta_map",
     servicio_id |-> "servicio_map", paquete_id |-> "paquete_map"]

\* C25: the step that reads the identifier maps never fails the attempt: each
\* map is the table's scan or, when the scan failed, empty, and the sale stage
\* comes next.  The sale and sale-line stages that follow, when no record is
\* malformed or rejected and the store does not fail, commit a row for every
\* document of their list, with NULL in each foreign key whose map is empty.
C25_ResolverDegradesToEmpty ==
    [][/\ (pc = "idmaps" /\ pc' # pc)
            => /\ pc' = "ventas" /\ errs' = errs /\ attempt' = attempt
               /\ \A k \in 1..Len(MapTables) :
                     maps'[MapNames[k]] \in {get_id_map(db[MapTables[k]], FALSE), <<>>}
       /\ \A t \in {"ventas", "detalle_venta"} :
             (pc = t /\ pc' # pc /\ trouble' = trouble
                 /\ RejectedAt(t) = {} /\ UnmappableAt(t) = {})
                => /\ pc' # "except"
                   /\ \A k \in 1..Len(docs[t]) :
                         /\ HasOrigen(db'[t], OidStr(docs[t][k]._id))
                         /\ \A f \in DOMAIN RowOf(db'[t], OidStr(docs[t][k]._id)).c :
                               (f \in DOMAIN MapOfColumn /\ maps[MapOfColumn[f]] = <<>>)
                                  => RowOf(db'[t], OidStr(docs[t][k]._id)).c[f] = NULL]_vars

\* a first pass over the regular snapshot has completed at its first attempt;
\* the clients are in their table, and every sale row has no client: the scan
\* of clientes failed and the sales and sale-lines were written all the same
C25_Witness ==
    /\ irr = {} /\ passes = 1 /\ pc = "idle" /\ result = "completed" /\ errs = <<>>
    /\ Cardinality(db["clientes"]) = NClientes
    /\ Cardinality(db["ventas"]) = NVentas
    /\ Cardinality(db["detalle_venta"]) = NDetalles
    /\ \A r \in db["ventas"] : r.c.cliente_id = NULL

\* C26: setting the stop event changes neither where sync_data is nor its
\* connections nor any table; and with the event set, an entity type's stage
\* does what it does without it: unless the store fails or a document cannot
\* be mapped, the batch is written and committed as upsert_<t> leaves it and
\* the attempt goes on to the next stage, or completes after the last.
C26_NoInterruptInFlight ==
    [][/\ (~stop_event /\ stop_event')
            => /\ pc' = pc /\ db' = db /\ serial' = serial
               /\ pg_conn' = pg_conn /\ mongo_client' = mongo_client
               /\ unclosed' = unclosed
       /\ \A t \in Tables :
             (pc = t /\ stop_event /\ pc' # pc /\ trouble' = trouble
                 /\ UnmappableAt(t) = {})
                => /\ db'[t] = Commit(db[t], Upsert(StyleOf(t), t, db[t], serial[t],
                                                    MapAll(Mapped(t)).recs))
                   /\ IF IsLastStage(t)
                      THEN pc' = "idle" /\ result' = "completed"
                      ELSE pc' = NextStage(t)
       /\ (pc = "idmaps" /\ stop_event /\ pc' # pc) => pc' = NextStage("idmaps")]_vars

\* the first attempt has committed everything up to the sales and is about
\* to write the sale-lines with the stop event set; nothing failed
C26_Witness ==
    /\ pc = "detalle_venta" /\ stop_event /\ attempt = 1 /\ errs = <<>>
    /\ db["ventas"] # {} /\ db["detalle_venta"] = {}
    /\ pg_conn = "open"

\* the connections to the target this invocation has tried: a call of
\* get_pg_connection that failed sleeps after each of its tries but the last
PgTries ==
    Len(SelectSeq(sleeps, LAMBDA x : x[1] = "get_pg_connection"))
        + Len(SelectSeq(errs, LAMBDA e : e = "pg_connect"))

\* the delays of this invocation, whoever slept
Delays == [i \in 1..Len(sleeps) |-> sleeps[i][2]]

\* C27: an invocation that ends failed because the target could not be
\* reached at any of its attempts has tried to connect to the target three
\* times, with a delay of 1 s and then one of 2 s in between.
C27_PgRetryCeiling ==
    (pc = "idle" /\ result = "failed" /\ errs = <<"pg_connect", "pg_connect", "pg_connect">>)
        => /\ PgTries = max_attempts
           /\ Delays = <<1, 2>>

\* the records stage t hands to upsert_<t>, and what the call returns
BatchOf(t) == MapAll(Mapped(t)).recs

Returned(t) == Upsert(StyleOf(t), t, db[t], serial[t], BatchOf(t))

\* C28: when a stage writes and commits a batch of which no record is
\* rejected, the inserted count its upsert function returns is the number of
\* origen_ids the table has gained, and the updated count is the number of
\* records of the batch whose origen_id the table already had.
C28_Counts ==
    [][\A t \in Tables :
         (StageStep(t) /\ pc' # "except" /\ RejectedAt(t) = {})
            => /\ Returned(t).insertados
                     = Cardinality(Origenes(db'[t]) \ Origenes(db[t]))
               /\ Returned(t).actualizados
                     = Cardinality({k \in 1..Len(BatchOf(t)) :
                                       HasOrigen(db[t], BatchOf(t)[k].origen_id)})]_vars

\* C29: once the sale batch is committed, the map upsert_ventas returned has
\* entries for sale records of the batch only, one for every record when no
\* statement was rejected, and each entry is the id of the row with that
\* origen_id in ventas.
C29_SaleMapCommitted ==
    (pc = "detalle_venta" /\ "ventas" \in DoneSet)
        => /\ \A o \in DOMAIN maps.venta_map :
                 /\ HasOrigen(db["ventas"], o)
                 /\ RowOf(db["ventas"], o).id = maps.venta_map[o]
           /\ DOMAIN maps.venta_map
                 \subseteq {BatchOf("ventas")[k].origen_id : k \in 1..Len(BatchOf("ventas"))}
           /\ RejectedAt("ventas") = {}
                 => \A k \in 1..Len(BatchOf("ventas")) :
                       BatchOf("ventas")[k].origen_id \in DOMAIN maps.venta_map

\* the estado a sale document's status text is to give
EstadoOf(status) ==
    CASE status = "" -> "pendiente"
      [] status = "Confirmada" -> "confirmada"
      [] status = "CANCELADA" -> "cancelada"
      [] OTHER -> status

\* C30: when the sale stage writes and commits a batch of which no record is
\* malformed or rejected, the row of every sale document has estado
\* "pendiente" for a missing or empty status and the lower-cased status
\* otherwise, and a row the table already had is the same row (same id).
C30_SaleStatus ==
    [][(StageStep("ventas") /\ pc' # "except"
           /\ RejectedAt("ventas") = {} /\ UnmappableAt("ventas") = {})
          => \A k \in 1..Len(docs["ventas"]) :
                LET o == OidStr(docs["ventas"][k]._id)
                IN /\ HasOrigen(db'["ventas"], o)
                   /\ RowOf(db'["ventas"], o).c.estado = EstadoOf(docs["ventas"][k].estadoVenta)
                   /\ HasOrigen(db["ventas"], o)
                         => RowOf(db'["ventas"], o).id = RowOf(db["ventas"], o).id]_vars

\* the second pass has just committed the sale batch: both sales are
\* "Confirmada" in the source, one of them since an edit made after the first
\* pass, and the two rows written by the first pass carry the new status
C30_Witness ==
    /\ passes = 2 /\ pc = "detalle_venta" /\ errs = <<>>
    /\ {<<"ventas", 1, "estado">>, <<"ventas", 2, "estado">>} \subseteq irr
    /\ Cardinality(db["ventas"]) = NVentas
    /\ \A r \in db["ventas"] : r.c.estado = "confirmada" /\ r.id \in 1..NVentas


\* C31: start() returns False when the source connection cannot be
\* established, and then creates no watcher thread and leaves the stop event
\* and the running flag as they were; it returns True only with the stop event
\* cleared and a watcher thread created
C31_StartOutcome ==
    [][(client' # client) =>
          /\ req'.started \in {"True", "False"}
          /\ outage => req'.started = "False"
          /\ req'.started = "False" =>
                /\ thread' = thread
                /\ th' = th
                /\ stop_event' = stop_event
                /\ is_running' = is_running
          /\ req'.started = "True" =>
                /\ ~stop_event'
                /\ thread' # thread
                /\ th[thread'].pc = "unborn"
                /\ th'[thread'].pc = "born"]_vars

\* a restart whose start() returned False: the stop event that stop() set is
\* still set, and the thread of the start before is the last one created
C31_Witness ==
    /\ req.started = "False"
    /\ req.pc = "idle"
    /\ stop_event
    /\ thread # 0
    /\ \A t \in Threads : t # thread => th[t].pc = "unborn"


\* C32: a pass never uses the request pool.  Whether db._POOL is set or not,
\* no step of sync_data changes the pool or the number of its connections
\* handed out, and the connection a pass opens is one more direct connection;
\* and however often init_pool is called, at most one ConnectionPool is open
C32_NoPoolInPass ==
    [][/\ pc' # pc =>
             /\ pool' = pool
             /\ (pg_conn = "none" /\ pg_conn' = "open") => unclosed'.pg = unclosed.pg + 1
       /\ pool'.pools <= 1
       /\ pool'.open <=> pool'.pools = 1]_vars

\* a pass holds its connection while the pool is set and a request holds one
\* of the pool's connections
C32_Witness ==
    /\ pc = "ventas"
    /\ pg_conn = "open"
    /\ unclosed.pg = 1
    /\ pool.open
    /\ pool.inuse = 1


\* C33: no pass of the watcher after a completed stop.  From the return of
\* stop() with the watcher thread ended until the next start(), no thread
\* starts a pass; and a change that a thread reads from its stream after a
\* stop() set the stop event never makes that thread call sync_data
C33_NoPassAfterStop ==
    [][\A t \in Threads :
          /\ (req.pc \in {"start", "down"} /\ ~is_alive(thread)) =>
                (th'[t].pc = "sync" => th[t].pc = "sync")
          /\ (th[t].pc = "change" /\ th[t].late) => th'[t].pc # "sync"]_vars


\* the current watcher thread is inside "with db.watch() as stream", past
\* the assignment of is_running, and its stream is open
Subscribed == thread # 0 /\ StreamOpen(thread) /\ th[thread].pc \in {"next", "change", "sync"}

\* C34: a restart does not let the old watcher disturb the new one.  After
\* a start() that followed a stop() which left the old thread alive, no step
\* of the old thread starts a pass, the end of the old thread does not make
\* the running flag false while the new watcher is watching, and, no request
\* being served, the running flag is true exactly when the current thread
\* holds an open subscription
C34_RestartIsolation ==
    [][\A t \in Threads :
          (t # thread /\ is_alive(t) /\ thread' = thread) =>
              /\ th'[t].pc = "sync" => th[t].pc = "sync"
              /\ (th'[t].pc = "dead" /\ Watching) => is_running'
              /\ req.pc = "idle" => (is_running <=> Subscribed)]_vars


\* C35: no foreign key goes back to null.  When the sale (sale-line) stage
\* runs over a document whose row holds a foreign key that is the id of the
\* row the document's reference names, the row holds a foreign key after the
\* stage too, whatever happened to the identifier maps and to the sale's
\* upsert in this pass
C35_NoKeyRegression ==
    [][\A t \in {"ventas", "detalle_venta"} : \A f \in RefFields(t) :
         \A k \in 1..Len(docs[t]) :
            LET o == OidStr(docs[t][k]._id)
                ref == docs[t][k][f[1]]
            IN (/\ pc = t /\ pc' # pc
                /\ HasOrigen(db[t], o)
                /\ RowOf(db[t], o).c[f[3]] # NULL
                /\ Truthy(ref)
                /\ \E r \in db[TableOfColumn[f[3]]] :
                      r.origen_id = PyStr(ref) /\ r.id = RowOf(db[t], o).c[f[3]])
               => RowOf(db'[t], o).c[f[3]] # NULL]_vars


C37_NoLeak ==
    pc \in {"idle", "loop"} => (unclosed.mongo = 0 /\ unclosed.pg = 0)


\* the steps of sync_data that look at the stop event and at the number of
\* the attempt: the top of the loop, where it returns or goes on to connect,
\* and the except clause, where it returns or backs off
ControlStep ==
    \/ Cancelled
    \/ MongoConnect
    \/ ExceptCancelled
    \/ ExceptExhausted
    \/ ExceptBackoff

\* how far an invocation is: the attempt, and in it the top of the loop, the
\* second connect, the reads, the stages in their order, the except clause
Progress ==
    attempt * (Len(StageOrder) + 4)
       + (CASE pc \in {"idle", "loop"} -> 0
            [] pc = "pg" -> 1
            [] pc = "extract" -> 2
            [] pc = "except" -> Len(StageOrder) + 3
            [] OTHER -> 2 + StageIndex(pc))

\* C38: a pass terminates.  An invocation is never beyond its third attempt
\* and never has slept more than twice itself; at the top of the loop and in
\* the except clause it has a step to take whatever the stop event is and
\* whatever has failed; and every step of it returns or takes it further in
\* the attempt or to the next attempt, so it returns within a bounded number
\* of steps
C38_Termination ==
    [][/\ attempt' <= max_attempts
       /\ Len(SyncDelays') <= max_attempts - 1
       /\ pc \in {"loop", "except"} => ENABLED <<ControlStep>>_vars
       /\ (pc # "idle" /\ pc' # pc) => (pc' = "idle" \/ Progress' > Progress)]_vars

\* an invocation has returned from its third attempt, after two attempts
\* that failed in different places and with the stop event set on the way
C38_Witness ==
    /\ pc = "idle" /\ passes = 1
    /\ Len(errs) = 2 /\ errs[1] # errs[2]
    /\ SyncDelays = <<1, 2>>
    /\ result = "completed"

=============================================================================
